---- MODULE Spec2Model ----
(***************************************************************************)
(* Model of the backtesting engine of kimpop2/backtest.                    *)
(*                                                                         *)
(* The ledger (backtester/portfolio_manager.py, class PortfolioManager) is *)
(* modelled as a state machine whose operations are execute_order and      *)
(* update_current_market_data.  Python's numbers are modelled as exact     *)
(* rationals (normalised fractions), so every product, sum and quotient of *)
(* the code is computed exactly; floating-point rounding is not modelled.  *)
(***************************************************************************)
EXTENDS Integers, Sequences, FiniteSets, TLC

(***************************************************************************)
(* Bounds of the model.                                                    *)
(***************************************************************************)
\* the number of records (trade records and snapshots) a run may append
MaxSteps == 3
\* the calendar days of the stored market data are 1..MaxDay
MaxDay == 2

(***************************************************************************)
(* Exact rational arithmetic: the numbers the ledger computes with.        *)
(***************************************************************************)
Abs(i) == IF i < 0 THEN -i ELSE i

RECURSIVE GCD(_, _)
GCD(a, b) == IF b = 0 THEN a ELSE GCD(b, a % b)

\* the fraction n/d (d # 0) in lowest terms with a positive denominator
Frac(n, d) ==
    LET g == GCD(Abs(n), Abs(d))
        s == IF d < 0 THEN -1 ELSE 1
    IN  [n |-> (s * n) \div g, d |-> (s * d) \div g]

Num(i) == [n |-> i, d |-> 1]
Zero == Num(0)
Add(x, y) == Frac(x.n * y.d + y.n * x.d, x.d * y.d)
Neg(x) == [n |-> -x.n, d |-> x.d]
Sub(x, y) == Add(x, Neg(y))
Mul(x, y) == Frac(x.n * y.n, x.d * y.d)
Div(x, y) == Frac(x.n * y.d, x.d * y.n)
Leq(x, y) == x.n * y.d <= y.n * x.d
Lt(x, y) == x.n * y.d < y.n * x.d
Geq(x, y) == Leq(y, x)
Gt(x, y) == Lt(y, x)

(***************************************************************************)
(* Inputs.                                                                 *)
(***************************************************************************)
Stocks == {"A", "B"}
TradeTypes == {"BUY", "SELL", "HOLD"}
\* None (an absent field, an unset date) is falsy like 0 and is modelled as 0
None == 0
Dates == {1, 2}
\* the prices and quantities an order may carry: 0 is the falsy value, a
\* negative quantity is an int like any other
OrderPrices == {0, 1, 2}
OrderQuantities == {-1, 0, 1, 2}
\* the closing prices a mark update may carry
MarkPrices == {3}
\* a signal is the dict handed to execute_order; a field that is absent,
\* None or 0 is the value 0 here ("" for a string field)
Signals ==
    [signal : TradeTypes, stock_code : Stocks,
     price : OrderPrices, quantity : OrderQuantities]
    \cup {[signal |-> "HOLD", stock_code |-> "", price |-> None, quantity |-> None]}
\* the market_prices dicts: a price for some of the instruments
PriceMaps == UNION {[S -> MarkPrices] : S \in SUBSET Stocks}
\* the constructor's arguments: <<initial_capital, commission_rate, slippage_rate>>
Configs == {<<Num(4), Zero, Zero>>, <<Num(6), Frac(1, 4), Frac(1, 2)>>}

VARIABLES
    initial_capital,         \* self.initial_capital
    commission_rate,         \* self.commission_rate
    slippage_rate,           \* self.slippage_rate
    current_cash,            \* self.current_cash
    holdings,                \* self.holdings: stock_code -> entry
    trade_logs,              \* self.trade_logs
    portfolio_value_history, \* self.portfolio_value_history
    current_date,            \* self.current_date
    op,                      \* the method called last
    ret,                     \* what the last execute_order call returned
    strategy,                \* Backtester.strategy: the class of the strategy
    stock_list,              \* Backtester.stock_list
    start_date,              \* Backtester.start_date
    end_date,                \* Backtester.end_date
    is_minute_data_test,     \* Backtester.is_minute_data_test
    bars,                    \* the rows of daily_stock_data and minute_stock_data
    pc,                      \* where run_backtest stands
    current_date_iter,       \* run_backtest's current_date_iter
    all_datetimes,           \* the datetimes of the day still to be processed
    current_datetime_in_minute, \* run_backtest's current_datetime_in_minute
    signals,                 \* the signals of the step still to be executed
    hook_call,               \* the arguments of the last step hook call
    mark_call,               \* the arguments of the driver's last mark update
    events                   \* the calls run_backtest has made, in order

config == <<initial_capital, commission_rate, slippage_rate>>
ledger == <<current_cash, holdings, trade_logs, portfolio_value_history,
            current_date, op, ret>>
loaded == <<strategy, stock_list, start_date, end_date, is_minute_data_test, bars>>
run == <<pc, current_date_iter, all_datetimes, current_datetime_in_minute,
         signals, hook_call, mark_call, events>>
vars == <<initial_capital, commission_rate, slippage_rate, current_cash, holdings,
          trade_logs, portfolio_value_history, current_date, op, ret,
          strategy, stock_list, start_date, end_date, is_minute_data_test, bars,
          pc, current_date_iter, all_datetimes, current_datetime_in_minute,
          signals, hook_call, mark_call, events>>

(***************************************************************************)
(* PortfolioManager.__init__                                               *)
(***************************************************************************)
PortfolioManagerInit(C) ==
    /\ \E c \in C : /\ initial_capital = c[1]
                    /\ commission_rate = c[2]
                    /\ slippage_rate = c[3]
    /\ current_cash = initial_capital
    /\ holdings = << >>
    /\ trade_logs = << >>
    /\ portfolio_value_history = << >>
    /\ current_date = None
    /\ op = "init"
    /\ ret = FALSE

\* no step hook has been called, no mark update has been made by a driver
NoCall == [t |-> None, data |-> << >>]

\* Backtester.__init__: nothing is loaded and run_backtest has not been called
BacktesterInit ==
    /\ stock_list = << >>
    /\ start_date = None
    /\ end_date = None
    /\ is_minute_data_test = FALSE
    /\ current_date_iter = None
    /\ all_datetimes = << >>
    /\ current_datetime_in_minute = None
    /\ signals = << >>
    /\ hook_call = NoCall
    /\ mark_call = NoCall
    /\ events = << >>

\* a ledger on its own: its methods are called directly
Init ==
    /\ PortfolioManagerInit(Configs)
    /\ BacktesterInit
    /\ strategy = ""
    /\ bars = << >>
    /\ pc = "ledger"

(***************************************************************************)
(* Read-only queries.                                                      *)
(***************************************************************************)
\* sum of f[s] over the finite set S
RECURSIVE SumOver(_, _)
SumOver(S, f) ==
    IF S = {} THEN Zero
    ELSE LET s == CHOOSE x \in S : TRUE
         IN  Add(f[s], SumOver(S \ {s}, f))

GetHoldingQuantity(h, stock_code) ==
    IF stock_code \in DOMAIN h THEN h[stock_code].quantity ELSE 0

GetCurrentPortfolioValue(cash, h) ==
    Add(cash,
        SumOver(DOMAIN h,
                [s \in DOMAIN h |-> Mul(Num(h[s].quantity), h[s].current_price)]))

(***************************************************************************)
(* update_current_market_data                                              *)
(***************************************************************************)
\* marks that open an entry for every instrument of market_prices
MarkedHoldingsCreating(h, market_prices) ==
    [s \in DOMAIN h \cup DOMAIN market_prices |->
        IF s \in DOMAIN h
        THEN IF s \in DOMAIN market_prices
             THEN [h[s] EXCEPT !.current_price = Num(market_prices[s])]
             ELSE h[s]
        ELSE [quantity |-> 0, avg_price |-> Zero,
              current_price |-> Num(market_prices[s])]]

\* the holdings after the marks of the instruments in market_prices are set
MarkedHoldings(h, market_prices) ==
    [s \in DOMAIN h |->
        IF s \in DOMAIN market_prices
        THEN [h[s] EXCEPT !.current_price = Num(market_prices[s])]
        ELSE h[s]]

\* total_holdings_value: only the instruments in market_prices are added
TotalHoldingsValue(h, market_prices) ==
    LET S == DOMAIN h \cap DOMAIN market_prices
    IN  SumOver(S, [s \in S |-> Mul(Num(h[s].quantity), Num(market_prices[s]))])

UpdateCurrentMarketDataCall(d, market_prices) ==
    /\ current_date' = d
    /\ holdings' = MarkedHoldings(holdings, market_prices)
    /\ LET total_holdings_value == TotalHoldingsValue(holdings, market_prices)
       IN  portfolio_value_history' = Append(portfolio_value_history,
               [date |-> d,
                portfolio_value |-> Add(current_cash, total_holdings_value),
                cash |-> current_cash,
                holdings_value |-> total_holdings_value])
    /\ op' = "update_current_market_data"
    /\ ret' = FALSE
    /\ UNCHANGED <<current_cash, trade_logs, config>>

\* a direct call of update_current_market_data
UpdateCurrentMarketData(d, market_prices) ==
    /\ Len(trade_logs) + Len(portfolio_value_history) < MaxSteps
    /\ UpdateCurrentMarketDataCall(d, market_prices)
    /\ UNCHANGED <<loaded, run>>

(***************************************************************************)
(* execute_order                                                           *)
(***************************************************************************)
\* all([trade_type, stock_code, price, quantity])
SignalValid(sig) ==
    /\ sig.signal # ""
    /\ sig.stock_code # ""
    /\ sig.price # 0
    /\ sig.quantity # 0

\* a commission on the price of one unit
CommissionPerUnit(price, quantity, rate) == Mul(Num(price), rate)

Commission(price, quantity, rate) == Mul(Num(price * quantity), rate)
Slippage(price, quantity, rate) == Mul(Num(price * quantity), rate)

\* a total that leaves the slippage out
BuyTotalCostNoSlippage(price, quantity, commission, slippage) ==
    Add(Num(price * quantity), commission)

BuyTotalCost(price, quantity, commission, slippage) ==
    Add(Add(Num(price * quantity), commission), slippage)

\* an affordability test that wants cash left over
BuyAcceptedStrict(cash, total_cost) == Gt(cash, total_cost)

BuyAccepted(cash, total_cost) == Geq(cash, total_cost)

NewAvgPrice(old_quantity, old_avg_price, price, quantity) ==
    LET existing_total_value == Mul(Num(old_quantity), old_avg_price)
        new_total_value == Add(existing_total_value, Num(price * quantity))
        new_total_quantity == old_quantity + quantity
    IN  IF new_total_quantity > 0
        THEN Div(new_total_value, Num(new_total_quantity))
        ELSE Zero

\* a new position that waits for the next mark update to get its mark
BuyHoldingsUnmarked(h, stock_code, price, quantity) ==
    LET entry == IF stock_code \in DOMAIN h
                 THEN h[stock_code]
                 ELSE [quantity |-> 0, avg_price |-> Zero, current_price |-> Zero]
        bought == [entry EXCEPT
                     !.avg_price = NewAvgPrice(entry.quantity, entry.avg_price, price, quantity),
                     !.quantity = entry.quantity + quantity]
    IN  [s \in DOMAIN h \cup {stock_code} |-> IF s = stock_code THEN bought ELSE h[s]]

BuyHoldings(h, stock_code, price, quantity) ==
    LET entry == IF stock_code \in DOMAIN h
                 THEN h[stock_code]
                 ELSE [quantity |-> 0, avg_price |-> Zero, current_price |-> Num(price)]
        bought == [entry EXCEPT
                     !.avg_price = NewAvgPrice(entry.quantity, entry.avg_price, price, quantity),
                     !.quantity = entry.quantity + quantity]
    IN  [s \in DOMAIN h \cup {stock_code} |-> IF s = stock_code THEN bought ELSE h[s]]

\* a holding test that wants shares left over
SellAcceptedStrict(h, stock_code, quantity) ==
    stock_code \in DOMAIN h /\ h[stock_code].quantity > quantity

SellAccepted(h, stock_code, quantity) ==
    stock_code \in DOMAIN h /\ h[stock_code].quantity >= quantity

\* a PnL that leaves the costs out
SellPnlGross(avg_price, price, quantity, commission, slippage) ==
    Sub(Num(price * quantity), Mul(avg_price, Num(quantity)))

SellPnl(avg_price, price, quantity, commission, slippage) ==
    LET cost_of_sold_shares == Mul(avg_price, Num(quantity))
        revenue_from_sale == Num(price * quantity)
    IN  Sub(Sub(Sub(revenue_from_sale, cost_of_sold_shares), commission), slippage)

SellProceeds(price, quantity, commission, slippage) ==
    Sub(Sub(Num(price * quantity), commission), slippage)

\* a sale that spreads the cost basis over the shares that remain
SellHoldingsReaveraged(h, stock_code, quantity) ==
    IF h[stock_code].quantity - quantity = 0
    THEN [s \in DOMAIN h \ {stock_code} |-> h[s]]
    ELSE [h EXCEPT ![stock_code].quantity = h[stock_code].quantity - quantity,
                   ![stock_code].avg_price =
                       Div(Mul(h[stock_code].avg_price, Num(h[stock_code].quantity)),
                           Num(h[stock_code].quantity - quantity))]

SellHoldings(h, stock_code, quantity) ==
    IF h[stock_code].quantity - quantity = 0
    THEN [s \in DOMAIN h \ {stock_code} |-> h[s]]
    ELSE [h EXCEPT ![stock_code].quantity = h[stock_code].quantity - quantity]

\* a record that describes the position as it was before the order
TradeRecordBeforeOrder(sig, commission, slippage, pnl, cash, h, d) ==
    [trade_type |-> sig.signal,
     stock_code |-> sig.stock_code,
     trade_date |-> d,
     price |-> sig.price,
     quantity |-> sig.quantity,
     commission |-> commission,
     slippage |-> slippage,
     pnl |-> pnl,
     position_size |-> GetHoldingQuantity(holdings, sig.stock_code),
     portfolio_value |-> GetCurrentPortfolioValue(cash, h)]

TradeRecord(sig, commission, slippage, pnl, cash, h, d) ==
    [trade_type |-> sig.signal,
     stock_code |-> sig.stock_code,
     trade_date |-> d,
     price |-> sig.price,
     quantity |-> sig.quantity,
     commission |-> commission,
     slippage |-> slippage,
     pnl |-> pnl,
     position_size |-> GetHoldingQuantity(h, sig.stock_code),
     portfolio_value |-> GetCurrentPortfolioValue(cash, h)]

\* a rejection that comes after the cash was debited
RejectAfterDebit ==
    /\ ret' = FALSE
    /\ current_cash' = Sub(current_cash, Num(1))
    /\ UNCHANGED <<holdings, trade_logs>>

\* the order is rejected: nothing but the return value
Reject ==
    /\ ret' = FALSE
    /\ UNCHANGED <<current_cash, holdings, trade_logs>>

\* an order whose record is put in front of the log
ApplyPrepending(sig, commission, slippage, pnl, cash, h) ==
    /\ ret' = TRUE
    /\ current_cash' = cash
    /\ holdings' = h
    /\ trade_logs' = <<TradeRecord(sig, commission, slippage, pnl, cash, h, current_date)>>
                          \o trade_logs

\* the order is applied: cash and holdings change, one record is appended
Apply(sig, commission, slippage, pnl, cash, h) ==
    /\ ret' = TRUE
    /\ current_cash' = cash
    /\ holdings' = h
    /\ trade_logs' = Append(trade_logs,
           TradeRecord(sig, commission, slippage, pnl, cash, h, current_date))

\* trade_success, the value execute_order returns for sig in the current state
TradeSuccess(sig) ==
    IF ~SignalValid(sig) THEN FALSE
    ELSE LET commission == Commission(sig.price, sig.quantity, commission_rate)
             slippage == Slippage(sig.price, sig.quantity, slippage_rate)
             total_cost == BuyTotalCost(sig.price, sig.quantity, commission, slippage)
         IN  IF sig.signal = "BUY" THEN BuyAccepted(current_cash, total_cost)
             ELSE IF sig.signal = "SELL"
                  THEN SellAccepted(holdings, sig.stock_code, sig.quantity)
                  ELSE FALSE

ExecuteOrderCall(sig) ==
    /\ op' = "execute_order"
    /\ UNCHANGED <<portfolio_value_history, current_date, config>>
    /\ IF ~TradeSuccess(sig) THEN Reject
       ELSE LET stock_code == sig.stock_code
                price == sig.price
                quantity == sig.quantity
                commission == Commission(price, quantity, commission_rate)
                slippage == Slippage(price, quantity, slippage_rate)
                total_cost == BuyTotalCost(price, quantity, commission, slippage)
            IN  IF sig.signal = "BUY"
                THEN Apply(sig, commission, slippage, Zero,
                           Sub(current_cash, total_cost),
                           BuyHoldings(holdings, stock_code, price, quantity))
                ELSE Apply(sig, commission, slippage,
                           SellPnl(holdings[stock_code].avg_price, price, quantity,
                                   commission, slippage),
                           Add(current_cash,
                               SellProceeds(price, quantity, commission, slippage)),
                           SellHoldings(holdings, stock_code, quantity))

\* a direct call of execute_order
ExecuteOrder(sig) ==
    /\ Len(trade_logs) + Len(portfolio_value_history) < MaxSteps
    /\ ExecuteOrderCall(sig)
    /\ UNCHANGED <<loaded, run>>

(***************************************************************************)
(* get_final_results                                                       *)
(***************************************************************************)
\* 'total_trades': len(self.trade_logs)
TotalTrades(log) == Len(log)

\* the float values that are no numbers: 0/0, x/0 for x < 0 and for x > 0
NaN == [n |-> 0, d |-> 0]
NegInf == [n |-> -1, d |-> 0]
PosInf == [n |-> 1, d |-> 0]

\* x / y on a pandas Series: a division by 0 raises nothing and gives nan or
\* an infinity
SeriesDiv(x, y) ==
    IF y.n # 0 THEN Div(x, y)
    ELSE IF x.n = 0 THEN NaN
    ELSE IF x.n < 0 THEN NegInf ELSE PosInf

\* x * 100 on a float: nan and the infinities stay what they are
Times100(x) == IF x.d = 0 THEN x ELSE Mul(x, Num(100))

\* pv_df['portfolio_value']
PortfolioValues(history) == [i \in 1..Len(history) |-> history[i].portfolio_value]

\* pv_df['portfolio_value'].expanding().max(): the largest value up to row i
ExpandingMax(values) ==
    [i \in 1..Len(values) |->
        CHOOSE v \in {values[j] : j \in 1..i} : \A j \in 1..i : Leq(values[j], v)]

\* drawdown = (pv_df['portfolio_value'] - peak_value) / peak_value
Drawdown(values) ==
    LET peak_value == ExpandingMax(values)
    IN  [i \in 1..Len(values) |->
            SeriesDiv(Sub(values[i], peak_value[i]), peak_value[i])]

\* Series.min(): nan entries are skipped, and the result is nan if nothing is
\* left
SeriesMin(q) ==
    LET present == {q[i] : i \in 1..Len(q)} \ {NaN}
        numbers == {x \in present : x.d # 0}
    IN  IF present = {} THEN NaN
        ELSE IF NegInf \in present THEN NegInf
        ELSE IF numbers = {} THEN PosInf
        ELSE CHOOSE x \in numbers : \A y \in numbers : Leq(x, y)

\* max_drawdown: 0.0 without snapshots, else drawdown.min() * 100
MaxDrawdown(history) ==
    IF history = << >> THEN Zero
    ELSE Times100(SeriesMin(Drawdown(PortfolioValues(history))))

\* [t for t in self.trade_logs if t['trade_type'] == 'SELL']
TotalSellingTrades(log) == {i \in 1..Len(log) : log[i].trade_type = "SELL"}

\* [t for t in self.trade_logs if t.get('pnl', 0) > 0 and t['trade_type'] == 'SELL']
WinningTrades(log) ==
    {i \in 1..Len(log) : Gt(log[i].pnl, Zero) /\ log[i].trade_type = "SELL"}

WinRateOverAllTrades(log) ==
    IF TotalSellingTrades(log) # {}
    THEN Times100(Frac(Cardinality(WinningTrades(log)), Len(log)))
    ELSE Zero

\* win_rate = len(winning_trades) / len(total_selling_trades) * 100, or 0
\* without a SELL
WinRate(log) ==
    IF TotalSellingTrades(log) # {}
    THEN Times100(Frac(Cardinality(WinningTrades(log)),
                       Cardinality(TotalSellingTrades(log))))
    ELSE Zero

TotalReturnOnCash(final_value, initial) ==
    IF Gt(initial, Zero)
    THEN Times100(Div(Sub(current_cash, initial), initial))
    ELSE Zero

\* total_return = (final_value - initial_capital) / initial_capital * 100
\* if initial_capital > 0 else 0
TotalReturn(final_value, initial) ==
    IF Gt(initial, Zero)
    THEN Times100(Div(Sub(final_value, initial), initial))
    ELSE Zero

\* the dict get_final_results returns
FinalResults ==
    LET final_value == GetCurrentPortfolioValue(current_cash, holdings)
    IN  [initial_capital |-> initial_capital,
         final_capital |-> final_value,
         total_return |-> TotalReturn(final_value, initial_capital),
         total_trades |-> TotalTrades(trade_logs),
         max_drawdown |-> MaxDrawdown(portfolio_value_history),
         win_rate |-> WinRate(trade_logs),
         commission_rate |-> commission_rate,
         slippage_rate |-> slippage_rate]

Next ==
    \/ \E sig \in Signals : ExecuteOrder(sig)
    \/ \E d \in Dates, market_prices \in PriceMaps :
           UpdateCurrentMarketData(d, market_prices)

Spec == Init /\ [][Next]_vars

\* a ledger that is handed BUY orders only
BuySignals == {sig \in Signals : sig.signal = "BUY"}
NextBuys == \E sig \in BuySignals : ExecuteOrder(sig)
SpecBuys == Init /\ [][NextBuys]_vars

\* the ledger of the repository's test run: capital 1,000,000, commission
\* 0.015 %, slippage 0.01 %
ScenarioConfig == <<Num(1000000), Frac(15, 100000), Frac(1, 10000)>>
\* orders of 10 units of A at 50,000 and at 51,000, and marks of A at these
\* prices
ScenarioSignals ==
    [signal : {"BUY", "SELL"}, stock_code : {"A"},
     price : {50000, 51000}, quantity : {10}]
ScenarioPriceMaps == [{"A"} -> {50000, 51000}]

InitScenario ==
    /\ PortfolioManagerInit({ScenarioConfig})
    /\ BacktesterInit
    /\ strategy = ""
    /\ bars = << >>
    /\ pc = "ledger"

NextScenario ==
    \/ \E sig \in ScenarioSignals : ExecuteOrder(sig)
    \/ \E d \in Dates, market_prices \in ScenarioPriceMaps :
           UpdateCurrentMarketData(d, market_prices)

SpecScenario == InitScenario /\ [][NextScenario]_vars

\* a ledger whose mark updates carry prices that orders may carry too
TradedMarkPrices == {1, 2}
TradedPriceMaps == UNION {[S -> TradedMarkPrices] : S \in SUBSET Stocks}
NextAtMarks ==
    \/ \E sig \in Signals : ExecuteOrder(sig)
    \/ \E market_prices \in TradedPriceMaps : UpdateCurrentMarketData(1, market_prices)
SpecAtMarks == Init /\ [][NextAtMarks]_vars

(***************************************************************************)
(* The stored market data (db_manager).                                    *)
(***************************************************************************)
\* the calendar days of the stored data
Days == 1..MaxDay
\* the minutes of a trading day
Minutes == {1, 2}
\* a date is the timestamp <<day, 0>>, a datetime is <<day, minute>>
DateOf(d) == <<d, 0>>
TsLeq(a, b) == a[1] < b[1] \/ (a[1] = b[1] /\ a[2] <= b[2])
TsLt(a, b) == TsLeq(a, b) /\ a # b

\* which rows an instrument has in the tables
Patterns == {"all", "none", "late", "second"}
HasDailyBar(p, d) ==
    CASE p = "all" -> TRUE
      [] p = "none" -> FALSE
      [] p = "late" -> d >= 2
      [] p = "second" -> d % 2 = 0
HasMinuteBar(p, d, m) ==
    CASE p = "all" -> TRUE
      [] p = "none" -> FALSE
      [] p = "late" -> d >= 2
      [] p = "second" -> m = 2
\* close_price: every row has a close of its own
ClosePrice(stock_code, d, m) == 10 * d + m + (IF stock_code = "A" THEN 0 ELSE 5)
Bar(stock_code, d, m) == [ts |-> <<d, m>>, close_price |-> ClosePrice(stock_code, d, m)]

\* ORDER BY ... ASC
RECURSIVE Ascending(_)
Ascending(S) ==
    IF S = {} THEN << >>
    ELSE LET x == CHOOSE y \in S : \A z \in S : y <= z
         IN  <<x>> \o Ascending(S \ {x})

\* rows that are not limited to the end date asked for
GetDailyDataUnbounded(stock_code, first, last) ==
    LET ds == Ascending({d \in Days : first <= d /\ HasDailyBar(bars[stock_code], d)})
    IN  [i \in 1..Len(ds) |-> Bar(stock_code, ds[i], 0)]

\* get_daily_data: the rows with date BETWEEN first AND last, ascending
GetDailyData(stock_code, first, last) ==
    LET ds == Ascending({d \in Days : first <= d /\ d <= last
                                        /\ HasDailyBar(bars[stock_code], d)})
    IN  [i \in 1..Len(ds) |-> Bar(stock_code, ds[i], 0)]

\* get_minute_data_for_date: the rows with DATE(datetime) = d, ascending
GetMinuteDataForDate(stock_code, d) ==
    LET ms == Ascending({m \in Minutes : d \in Days /\ HasMinuteBar(bars[stock_code], d, m)})
    IN  [i \in 1..Len(ms) |-> Bar(stock_code, d, ms[i])]

(***************************************************************************)
(* The strategy (base_strategy, moving_average_crossover).                 *)
(***************************************************************************)
\* the reference strategy, and a strategy whose on_init takes the ledger too
Strategies == {"MovingAverageCrossoverStrategy", "LedgerStrategy"}
\* the parameters of on_init besides self
OnInitParameters(s) == IF s = "MovingAverageCrossoverStrategy" THEN 2 ELSE 3
\* the arguments run_backtest passes to on_init
OnInitArguments == Len(<<"initial_capital", "stock_list", "portfolio_manager">>)

Order(trade_type, stock_code, price, quantity) ==
    [signal |-> trade_type, stock_code |-> stock_code,
     price |-> price, quantity |-> quantity]
\* what a step hook may return
StrategyReplies ==
    {<< >>,
     <<Order("BUY", "A", 1, 1), Order("SELL", "A", 2, 1)>>,
     <<Order("SELL", "B", 1, 1), Order("BUY", "B", 1, 2)>>}

(***************************************************************************)
(* Backtester.load_data_for_backtest and Backtester.run_backtest           *)
(***************************************************************************)
\* the constructor's arguments of a run: a capital that pays for orders, and none
RunConfigs == {<<Num(4), Zero, Zero>>, <<Zero, Zero, Zero>>}
\* the <<start_date, end_date>> handed to load_data_for_backtest
DateRanges == {1, 2} \X {1, MaxDay}

Event(e, t, arg) == [e |-> e, t |-> t, arg |-> arg]

\* a Backtester on which load_data_for_backtest may have been called
InitRun ==
    /\ PortfolioManagerInit(RunConfigs)
    /\ strategy \in Strategies
    /\ \/ /\ stock_list = <<"A", "B">>
          /\ \E r \in DateRanges : start_date = r[1] /\ end_date = r[2]
          /\ is_minute_data_test \in BOOLEAN
          /\ bars \in [Stocks -> Patterns]
       \/ /\ stock_list = << >>
          /\ start_date = None
          /\ end_date = None
          /\ is_minute_data_test = FALSE
          /\ bars = [s \in Stocks |-> "all"]
    /\ pc = "ready"
    /\ current_date_iter = None
    /\ all_datetimes = << >>
    /\ current_datetime_in_minute = None
    /\ signals = << >>
    /\ hook_call = NoCall
    /\ mark_call = NoCall
    /\ events = << >>

StockSet == {stock_list[i] : i \in 1..Len(stock_list)}

\* all_data_for_day: the instruments with rows from start_date to the day d
AllDataForDay(d) ==
    LET S == {s \in StockSet : GetDailyData(s, start_date, d) # << >>}
    IN  [s \in S |-> GetDailyData(s, start_date, d)]

\* all_minute_data_for_day_raw: the instruments with rows on the day d
AllMinuteDataForDayRaw(d) ==
    LET S == {s \in StockSet : GetMinuteDataForDate(s, d) # << >>}
    IN  [s \in S |-> GetMinuteDataForDate(s, d)]

\* the datetimes of the day, the latest first
AllDatetimesDescending(raw) ==
    LET d == current_date_iter
        ms == Ascending(UNION {{raw[s][i].ts[2] : i \in 1..Len(raw[s])} : s \in DOMAIN raw})
    IN  [i \in 1..Len(ms) |-> <<d, ms[Len(ms) + 1 - i]>>]

\* sorted(list(set(dt for df in raw.values() for dt in df.index)))
AllDatetimes(raw) ==
    LET d == current_date_iter
        ms == Ascending(UNION {{raw[s][i].ts[2] : i \in 1..Len(raw[s])} : s \in DOMAIN raw})
    IN  [i \in 1..Len(ms) |-> <<d, ms[i]>>]

\* df[df.index <= dt]
UpTo(rows, dt) == SelectSeq(rows, LAMBDA b : TsLeq(b.ts, dt))

\* current_all_minute_data: the rows of the day up to the datetime dt
CurrentAllMinuteData(raw, dt) ==
    LET S == {s \in DOMAIN raw : UpTo(raw[s], dt) # << >>}
    IN  [s \in S |-> UpTo(raw[s], dt)]

\* a price map that gives an instrument without data the price 0
MarketPricesZeroFilled(data) ==
    [s \in StockSet |->
        IF s \in DOMAIN data THEN data[s][Len(data[s])].close_price ELSE 0]

\* df.iloc[-1]['close_price'] of every instrument of the data
MarketPrices(data) == [s \in DOMAIN data |-> data[s][Len(data[s])].close_price]

\* a loop that goes on two days at a time
NextDaySkipping(d) == d + 2

\* current_date_iter += timedelta(days=1)
NextDay(d) == d + 1

\* the step is over: the next datetime of the day, or the next day
StepDone ==
    IF is_minute_data_test /\ all_datetimes' # << >>
    THEN pc' = "minute_loop" /\ UNCHANGED current_date_iter
    ELSE pc' = "day_loop" /\ current_date_iter' = NextDay(current_date_iter)

\* run_backtest is called: nothing runs unless the data was loaded
RunBacktest ==
    /\ pc = "ready"
    /\ pc' = IF stock_list = << >> \/ start_date = None \/ end_date = None
             THEN "returned_none"
             ELSE "on_init"
    /\ UNCHANGED <<config, ledger, loaded, current_date_iter, all_datetimes,
                   current_datetime_in_minute, signals, hook_call, mark_call, events>>

\* strategy.on_init(initial_capital, stock_list, portfolio_manager)
OnInit ==
    /\ pc = "on_init"
    /\ IF OnInitParameters(strategy) = OnInitArguments
       THEN /\ events' = Append(events, Event("on_init", None, << >>))
            /\ current_date_iter' = start_date
            /\ pc' = "day_loop"
       ELSE \* TypeError: the call does not fit the method
            /\ pc' = "raised"
            /\ UNCHANGED <<events, current_date_iter>>
    /\ UNCHANGED <<config, ledger, loaded, all_datetimes,
                   current_datetime_in_minute, signals, hook_call, mark_call>>

\* one pass of the while loop up to the strategy's turn: the data of the day
\* is read and the ledger is marked
DayStep ==
    /\ pc = "day_loop"
    /\ current_date_iter <= end_date
    /\ LET all_data_for_day ==
               IF is_minute_data_test THEN << >> ELSE AllDataForDay(current_date_iter)
           market_prices_for_day == MarketPrices(all_data_for_day)
           raw == AllMinuteDataForDayRaw(current_date_iter)
       IN  /\ UpdateCurrentMarketDataCall(DateOf(current_date_iter), market_prices_for_day)
           /\ mark_call' = [t |-> DateOf(current_date_iter), data |-> market_prices_for_day]
           /\ events' = Append(events, Event("update_current_market_data",
                                             DateOf(current_date_iter), << >>))
           /\ IF ~is_minute_data_test
              THEN /\ all_datetimes' = << >>
                   /\ IF DOMAIN all_data_for_day # {}
                      THEN pc' = "on_daily_data" /\ UNCHANGED current_date_iter
                      ELSE StepDone
              ELSE /\ all_datetimes' = IF DOMAIN raw # {} THEN AllDatetimes(raw) ELSE << >>
                   /\ StepDone
    /\ UNCHANGED <<loaded, current_datetime_in_minute, signals, hook_call>>

\* the signals a hook returned are taken up: an empty list ends the step
TakeSignals(reply) ==
    /\ signals' = reply
    /\ IF reply # << >>
       THEN pc' = "execute_order" /\ UNCHANGED current_date_iter
       ELSE StepDone

\* a driver that calls on_daily_data twice in a step
OnDailyDataTwice ==
    /\ pc = "on_daily_data"
    /\ UNCHANGED <<config, ledger, loaded, all_datetimes,
                   current_datetime_in_minute, mark_call>>
    /\ \E reply \in StrategyReplies :
           /\ hook_call' = [t |-> DateOf(current_date_iter),
                            data |-> AllDataForDay(current_date_iter)]
           /\ events' = events \o
                  <<Event("on_daily_data", DateOf(current_date_iter), reply),
                    Event("on_daily_data", DateOf(current_date_iter), reply)>>
           /\ TakeSignals(reply)

\* signals = strategy.on_daily_data(current_date_iter, all_data_for_day)
OnDailyData ==
    /\ pc = "on_daily_data"
    /\ UNCHANGED <<config, ledger, loaded, all_datetimes,
                   current_datetime_in_minute, mark_call>>
    /\ \E reply \in StrategyReplies :
           /\ hook_call' = [t |-> DateOf(current_date_iter),
                            data |-> AllDataForDay(current_date_iter)]
           /\ events' = Append(events, Event("on_daily_data",
                                             DateOf(current_date_iter), reply))
           /\ TakeSignals(reply)

\* one pass of the loop over all_datetimes up to the strategy's turn
MinuteStep ==
    /\ pc = "minute_loop"
    /\ all_datetimes # << >>
    /\ LET dt == Head(all_datetimes)
           current_all_minute_data ==
               CurrentAllMinuteData(AllMinuteDataForDayRaw(current_date_iter), dt)
           current_market_prices_minute == MarketPrices(current_all_minute_data)
       IN  /\ current_datetime_in_minute' = dt
           /\ all_datetimes' = Tail(all_datetimes)
           /\ IF DOMAIN current_all_minute_data # {}
              THEN /\ UpdateCurrentMarketDataCall(dt, current_market_prices_minute)
                   /\ mark_call' = [t |-> dt, data |-> current_market_prices_minute]
                   /\ events' = Append(events, Event("update_current_market_data", dt, << >>))
                   /\ pc' = "on_minute_data"
                   /\ UNCHANGED current_date_iter
              ELSE /\ UNCHANGED <<config, ledger, mark_call, events>>
                   /\ StepDone
    /\ UNCHANGED <<loaded, signals, hook_call>>

\* signals_minute = strategy.on_minute_data(current_datetime_in_minute, ...)
OnMinuteData ==
    /\ pc = "on_minute_data"
    /\ UNCHANGED <<config, ledger, loaded, all_datetimes,
                   current_datetime_in_minute, mark_call>>
    /\ \E reply \in StrategyReplies :
           /\ hook_call' = [t |-> current_datetime_in_minute,
                            data |-> CurrentAllMinuteData(
                                         AllMinuteDataForDayRaw(current_date_iter),
                                         current_datetime_in_minute)]
           /\ events' = Append(events, Event("on_minute_data",
                                             current_datetime_in_minute, reply))
           /\ TakeSignals(reply)

\* a loop that takes the signals from the back of the list
ExecuteSignalStoppingAtRejection ==
    /\ pc = "execute_order"
    /\ UNCHANGED <<loaded, all_datetimes, current_datetime_in_minute,
                   hook_call, mark_call>>
    /\ LET signal == Head(signals)
       IN  /\ ExecuteOrderCall(signal)
           /\ events' = Append(events, Event("execute_order", current_date, signal))
    /\ signals' = IF ret' THEN Tail(signals) ELSE << >>
    /\ IF signals' # << >>
       THEN pc' = "execute_order" /\ UNCHANGED current_date_iter
       ELSE StepDone

ExecuteSignalLastFirst ==
    /\ pc = "execute_order"
    /\ UNCHANGED <<loaded, all_datetimes, current_datetime_in_minute,
                   hook_call, mark_call>>
    /\ LET signal == signals[Len(signals)]
       IN  /\ ExecuteOrderCall(signal)
           /\ events' = Append(events, Event("execute_order", current_date, signal))
    /\ signals' = SubSeq(signals, 1, Len(signals) - 1)
    /\ IF signals' # << >>
       THEN pc' = "execute_order" /\ UNCHANGED current_date_iter
       ELSE StepDone

\* for signal in signals: self.portfolio_manager.execute_order(signal)
ExecuteSignal ==
    /\ pc = "execute_order"
    /\ UNCHANGED <<loaded, all_datetimes, current_datetime_in_minute,
                   hook_call, mark_call>>
    /\ LET signal == Head(signals)
       IN  /\ ExecuteOrderCall(signal)
           /\ events' = Append(events, Event("execute_order", current_date, signal))
    /\ signals' = Tail(signals)
    /\ IF signals' # << >>
       THEN pc' = "execute_order" /\ UNCHANGED current_date_iter
       ELSE StepDone

\* a finish that computes the results before it tells the strategy
OnFinishAfterResults ==
    /\ pc = "day_loop"
    /\ current_date_iter > end_date
    /\ events' = events \o <<Event("get_final_results", None, <<FinalResults>>),
                             Event("on_finish", None, << >>)>>
    /\ pc' = "results"
    /\ UNCHANGED <<config, ledger, loaded, current_date_iter, all_datetimes,
                   current_datetime_in_minute, signals, hook_call, mark_call>>

\* the while loop is left: self.strategy.on_finish()
OnFinish ==
    /\ pc = "day_loop"
    /\ current_date_iter > end_date
    /\ events' = Append(events, Event("on_finish", None, << >>))
    /\ pc' = "finished"
    /\ UNCHANGED <<config, ledger, loaded, current_date_iter, all_datetimes,
                   current_datetime_in_minute, signals, hook_call, mark_call>>

\* final_results = self.portfolio_manager.get_final_results() and the two reads
GetFinalResults ==
    /\ pc = "finished"
    /\ events' = Append(events, Event("get_final_results", None, <<FinalResults>>))
    /\ pc' = "results"
    /\ UNCHANGED <<config, ledger, loaded, current_date_iter, all_datetimes,
                   current_datetime_in_minute, signals, hook_call, mark_call>>

\* how _save_backtest_results_to_db ends: the rows are committed, or there is
\* no connection (logged, return), or an insert raises (logged, rollback); in
\* no case does it raise or return a value
SaveOutcomes == {"committed", "no_connection", "rolled_back"}

\* self._save_backtest_results_to_db(final_results, trade_logs), then the
\* triple is returned
ReturnResults ==
    /\ pc = "results"
    /\ \E outcome \in SaveOutcomes :
           events' = Append(events, Event("_save_backtest_results_to_db",
                                          None, <<outcome>>))
    /\ pc' = "returned"
    /\ UNCHANGED <<config, ledger, loaded, current_date_iter, all_datetimes,
                   current_datetime_in_minute, signals, hook_call, mark_call>>

NextRun ==
    \/ RunBacktest
    \/ OnInit
    \/ DayStep
    \/ OnDailyData
    \/ MinuteStep
    \/ OnMinuteData
    \/ ExecuteSignal
    \/ OnFinish
    \/ GetFinalResults
    \/ ReturnResults

SpecRun == InitRun /\ [][NextRun]_vars

\* the calls of run_backtest made on one driver instance
MaxRuns == 2

\* a driver instance loaded for one day with rows for every instrument, whose
\* strategy accepts the ledger
InitRerun ==
    /\ InitRun
    /\ strategy = "LedgerStrategy"
    /\ initial_capital = Num(4)
    /\ stock_list # << >>
    /\ start_date = 1
    /\ end_date = 1
    /\ bars = [s \in Stocks |-> "all"]

\* run_backtest is called on an instance whose earlier call has returned: the
\* method keeps no record of the run made and starts as on the first call,
\* with the same strategy and the same PortfolioManager
RunBacktestAgain ==
    /\ pc = "returned"
    /\ Cardinality({i \in DOMAIN events :
                        events[i].e = "_save_backtest_results_to_db"}) < MaxRuns
    /\ pc' = IF stock_list = << >> \/ start_date = None \/ end_date = None
             THEN "returned_none"
             ELSE "on_init"
    /\ UNCHANGED <<config, ledger, loaded, current_date_iter, all_datetimes,
                   current_datetime_in_minute, signals, hook_call, mark_call, events>>

NextRerun ==
    \/ NextRun
    \/ RunBacktestAgain

SpecRerun == InitRerun /\ [][NextRerun]_vars

(***************************************************************************)
(* MovingAverageCrossoverStrategy, called as its own methods are written:  *)
(* on_init(initial_capital, stock_list), then on_daily_data for each day   *)
(* of a daily run, its signals applied to the ledger as run_backtest does. *)
(* Here `strategy` holds the fields of the strategy object and `bars` the  *)
(* daily closes of each instrument.                                        *)
(***************************************************************************)
\* the daily bars stored for each instrument
MaxBars == 7
\* MovingAverageCrossoverStrategy(short_window, long_window)
ShortWindow == 2
LongWindow == 3
\* the closes of the stored bars
Closes == {1, 3}

\* None where a moving average is expected
NoAverage == [n |-> 0, d |-> 0]

\* the series of closes of MaxBars days
RECURSIVE Series(_)
Series(n) ==
    IF n = 0 THEN {<< >>}
    ELSE {Append(q, c) : q \in Series(n - 1), c \in Closes}

\* MovingAverageCrossoverStrategy.__init__
StrategyNew ==
    [name |-> "MovingAverageCrossover",
     short_window |-> ShortWindow,
     long_window |-> LongWindow,
     previous_short_ma |-> << >>,
     previous_long_ma |-> << >>,
     current_positions |-> << >>]

StrategyConfig == <<Num(10), Zero, Zero>>

\* a new strategy, a new ledger and a driver loaded for a daily run over the
\* stored days; B has the bars of A or flat ones
InitStrategy ==
    /\ PortfolioManagerInit({StrategyConfig})
    /\ strategy = StrategyNew
    /\ stock_list = <<"A", "B">>
    /\ start_date = 1
    /\ end_date = MaxBars
    /\ is_minute_data_test = FALSE
    /\ \E q \in Series(MaxBars), flat \in BOOLEAN :
           bars = [s \in Stocks |->
                      IF s = "A" \/ ~flat THEN q ELSE [i \in 1..MaxBars |-> 1]]
    /\ pc = "on_init"
    /\ current_date_iter = None
    /\ all_datetimes = << >>
    /\ current_datetime_in_minute = None
    /\ signals = << >>
    /\ hook_call = NoCall
    /\ mark_call = NoCall
    /\ events = << >>

\* on_init(initial_capital, stock_list)
StrategyOnInit ==
    /\ pc = "on_init"
    /\ strategy' = [strategy EXCEPT
           !.previous_short_ma = [s \in StockSet |-> NoAverage],
           !.previous_long_ma = [s \in StockSet |-> NoAverage],
           !.current_positions = [s \in StockSet |-> FALSE]]
    /\ events' = Append(events, Event("on_init", None, << >>))
    /\ current_date_iter' = start_date
    /\ pc' = "day_loop"
    /\ UNCHANGED <<config, ledger, stock_list, start_date, end_date,
                   is_minute_data_test, bars, all_datetimes,
                   current_datetime_in_minute, signals, hook_call, mark_call>>

\* get_daily_data(stock_code, start_date, d)['close_price']
DailyCloses(stock_code, d) ==
    [i \in 1..(d + 1 - start_date) |-> bars[stock_code][start_date + i - 1]]

\* the pass of the while loop up to the strategy's turn, every instrument
\* having a bar on every day
StrategyDayStep ==
    /\ pc = "day_loop"
    /\ current_date_iter <= end_date
    /\ LET market_prices_for_day ==
               [s \in StockSet |-> bars[s][current_date_iter]]
       IN  /\ UpdateCurrentMarketDataCall(DateOf(current_date_iter),
                                          market_prices_for_day)
           /\ mark_call' = [t |-> DateOf(current_date_iter),
                            data |-> market_prices_for_day]
    /\ events' = Append(events, Event("update_current_market_data",
                                      DateOf(current_date_iter), << >>))
    /\ pc' = "on_daily_data"
    /\ UNCHANGED <<loaded, current_date_iter, all_datetimes,
                   current_datetime_in_minute, signals, hook_call>>

\* Series.mean() of a non-empty series of closes
RECURSIVE Sum(_)
Sum(q) == IF q = << >> THEN 0 ELSE Head(q) + Sum(Tail(q))
Mean(q) == Frac(Sum(q), Len(q))

\* current_data['close_price'].iloc[-n:]
LastRows(q, n) == IF n >= Len(q) THEN q ELSE SubSeq(q, Len(q) - n + 1, Len(q))

Hold(stock_code) == Order("HOLD", stock_code, None, None)

\* `if not self.current_positions[stock_code]`
BuyAllowed(st, stock_code) == ~st.current_positions[stock_code]

\* averages that are stored only together with a signal
StoreAveragesOnSignal(st, stock_code, short_ma, long_ma, signal) ==
    IF signal.signal = "HOLD" THEN st
    ELSE [st EXCEPT !.previous_short_ma[stock_code] = short_ma,
                    !.previous_long_ma[stock_code] = long_ma]

\* self.previous_short_ma[stock_code] = short_ma, and the long one
StoreAverages(st, stock_code, short_ma, long_ma, signal) ==
    [st EXCEPT !.previous_short_ma[stock_code] = short_ma,
               !.previous_long_ma[stock_code] = long_ma]

\* generate_signal(stock_code, current_data), for data with a close_price
\* column: the signal returned and the strategy object after the call
GenerateSignal(st, stock_code, current_data) ==
    IF \/ current_data = << >>
       \/ Len(current_data) < (IF st.short_window >= st.long_window
                               THEN st.short_window ELSE st.long_window)
    THEN [signal |-> Order("HOLD", "", None, None), strategy |-> st]
    ELSE LET short_ma == Mean(LastRows(current_data, st.short_window))
             long_ma == Mean(LastRows(current_data, st.long_window))
             current_price == current_data[Len(current_data)]
             previous_short == st.previous_short_ma[stock_code]
             previous_long == st.previous_long_ma[stock_code]
             signal ==
                 IF previous_short # NoAverage /\ previous_long # NoAverage
                 THEN IF Leq(previous_short, previous_long) /\ Gt(short_ma, long_ma)
                      THEN IF BuyAllowed(st, stock_code)
                           THEN Order("BUY", stock_code, current_price, 1)
                           ELSE Hold(stock_code)
                      ELSE IF Geq(previous_short, previous_long) /\ Lt(short_ma, long_ma)
                           THEN IF st.current_positions[stock_code]
                                THEN Order("SELL", stock_code, current_price, 100)
                                ELSE Hold(stock_code)
                           ELSE Hold(stock_code)
                 ELSE Hold(stock_code)
         IN  [signal |-> signal,
              strategy |-> StoreAverages(st, stock_code, short_ma, long_ma, signal)]

\* the for loop of on_daily_data over the instruments codes[k..], in the
\* order of the dict: the signals that are not HOLD and the strategy after it
RECURSIVE DailySignals(_, _, _, _)
DailySignals(st, codes, k, d) ==
    IF k > Len(codes) THEN [signals |-> << >>, strategy |-> st]
    ELSE LET one == GenerateSignal(st, codes[k], DailyCloses(codes[k], d))
             rest == DailySignals(one.strategy, codes, k + 1, d)
         IN  [signals |-> IF one.signal.signal # "HOLD"
                          THEN <<one.signal>> \o rest.signals
                          ELSE rest.signals,
              strategy |-> rest.strategy]

\* the instruments are visited in any order
StrategyOnDailyDataAnyOrder ==
    /\ pc = "on_daily_data"
    /\ UNCHANGED <<config, ledger, stock_list, start_date, end_date,
                   is_minute_data_test, bars, all_datetimes,
                   current_datetime_in_minute, mark_call>>
    /\ \E codes \in {stock_list, <<stock_list[2], stock_list[1]>>} :
           LET call == DailySignals(strategy, codes, 1, current_date_iter)
           IN  /\ strategy' = call.strategy
               /\ hook_call' = [t |-> DateOf(current_date_iter),
                                data |-> [s \in StockSet |->
                                             DailyCloses(s, current_date_iter)]]
               /\ events' = Append(events, Event("on_daily_data",
                                       DateOf(current_date_iter), call.signals))
               /\ TakeSignals(call.signals)

\* signals = self.strategy.on_daily_data(current_date_iter, all_data_for_day)
StrategyOnDailyData ==
    /\ pc = "on_daily_data"
    /\ UNCHANGED <<config, ledger, stock_list, start_date, end_date,
                   is_minute_data_test, bars, all_datetimes,
                   current_datetime_in_minute, mark_call>>
    /\ LET call == DailySignals(strategy, stock_list, 1, current_date_iter)
       IN  /\ strategy' = call.strategy
           /\ hook_call' = [t |-> DateOf(current_date_iter),
                            data |-> [s \in StockSet |->
                                         DailyCloses(s, current_date_iter)]]
           /\ events' = Append(events, Event("on_daily_data",
                                             DateOf(current_date_iter), call.signals))
           /\ TakeSignals(call.signals)

NextStrategy ==
    \/ StrategyOnInit
    \/ StrategyDayStep
    \/ StrategyOnDailyData
    \/ ExecuteSignal
    \/ OnFinish
    \/ GetFinalResults
    \/ ReturnResults

SpecStrategy == InitStrategy /\ [][NextStrategy]_vars

\* `return final_results, trade_logs, portfolio_history` has handed the triple
\* to the caller, who builds a new strategy, a new PortfolioManager and a new
\* Backtester with the same arguments, loads the same data and calls
\* run_backtest on them
RunOnFreshObjects ==
    /\ pc = "returned"
    /\ \A i \in DOMAIN events : events[i].e # "return"
    /\ events' = Append(events,
           Event("return", None, <<FinalResults, trade_logs, portfolio_value_history>>))
    /\ strategy' = StrategyNew
    /\ current_cash' = initial_capital
    /\ holdings' = << >>
    /\ trade_logs' = << >>
    /\ portfolio_value_history' = << >>
    /\ current_date' = None
    /\ op' = "init"
    /\ ret' = FALSE
    /\ current_date_iter' = None
    /\ all_datetimes' = << >>
    /\ current_datetime_in_minute' = None
    /\ signals' = << >>
    /\ hook_call' = NoCall
    /\ mark_call' = NoCall
    /\ pc' = "on_init"
    /\ UNCHANGED <<config, stock_list, start_date, end_date, is_minute_data_test, bars>>

NextTwice ==
    \/ NextStrategy
    \/ RunOnFreshObjects

SpecTwice == InitStrategy /\ [][NextTwice]_vars

(***************************************************************************)
(* Properties of the ledger.                                               *)
(***************************************************************************)
Last(q) == q[Len(q)]

\* the step is a call of execute_order that returned True and appended a record
Accepted == op' = "execute_order" /\ ret' = TRUE

\* the step is a call of execute_order that returned False
Rejected == op' = "execute_order" /\ ret' = FALSE

\* price * quantity * (1 + commissionRate + slippageRate), as the claims state it
OrderTotal(sig) ==
    LET notional == Num(sig.price * sig.quantity)
    IN  Add(notional, Add(Mul(notional, commission_rate), Mul(notional, slippage_rate)))

\* price * quantity - commission - slippage, as the claims state it
OrderProceeds(sig) ==
    LET notional == Num(sig.price * sig.quantity)
    IN  Sub(notional, Add(Mul(notional, commission_rate), Mul(notional, slippage_rate)))

\* every position but the one of stock_code is the same before and after the step
OtherPositionsUnchanged(stock_code) ==
    \A t \in Stocks \ {stock_code} :
        /\ t \in DOMAIN holdings' <=> t \in DOMAIN holdings
        /\ t \in DOMAIN holdings => holdings'[t] = holdings[t]

\* C1: in every reachable state of the ledger, current_cash is >= 0.
C1_CashNeverNegative == Geq(current_cash, Zero)

\* C2: in every reachable state every held position has quantity >= 0 and every
\* appended TradeRecord has position_size >= 0.
C2_QuantitiesNeverNegative ==
    /\ \A s \in DOMAIN holdings : holdings[s].quantity >= 0
    /\ \A i \in 1..Len(trade_logs) : trade_logs[i].position_size >= 0

\* the order is one the claim C3 lists as rejected
RejectedCase(sig) ==
    \/ sig.signal = "BUY" /\ Lt(current_cash, OrderTotal(sig))
    \/ sig.signal = "SELL" /\ (\/ sig.stock_code \notin DOMAIN holdings
                               \/ GetHoldingQuantity(holdings, sig.stock_code) < sig.quantity)
    \/ sig.signal \notin {"BUY", "SELL"}

\* the signal a TradeRecord was made from
SignalOf(r) ==
    [signal |-> r.trade_type, stock_code |-> r.stock_code,
     price |-> r.price, quantity |-> r.quantity]

\* the signal of the order the step applied, as its TradeRecord keeps it
AppliedSignal == SignalOf(Last(trade_logs'))

\* the step applied an order: one record more in the trade log
Applied == Accepted /\ Len(trade_logs') = Len(trade_logs) + 1

\* C3: a rejected order leaves the ledger unchanged: whenever execute_order
\* returns False, cash, the positions (quantity, average cost, mark), the trade
\* log and the snapshot history are as before the call; and no BUY with
\* cash < total, no SELL of more than is held or of an instrument not held and
\* no signal that is neither BUY nor SELL is ever accepted.
C3_RejectedOrderLeavesLedgerUnchanged ==
    [][/\ Rejected =>
            UNCHANGED <<current_cash, holdings, trade_logs, portfolio_value_history>>
       /\ Accepted => Applied /\ ~RejectedCase(AppliedSignal)
      ]_vars

\* an order was rejected by a ledger that holds a position, has applied an order
\* and has taken a snapshot
C3_Witness ==
    /\ op = "execute_order"
    /\ ret = FALSE
    /\ holdings # << >>
    /\ trade_logs # << >>
    /\ portfolio_value_history # << >>

\* the applied order was a BUY: it debited exactly total, added exactly the
\* order quantity to the instrument and touched no other position
BuyEffect ==
    (Applied /\ AppliedSignal.signal = "BUY") =>
        /\ current_cash' = Sub(current_cash, OrderTotal(AppliedSignal))
        /\ GetHoldingQuantity(holdings', AppliedSignal.stock_code)
             = GetHoldingQuantity(holdings, AppliedSignal.stock_code)
               + AppliedSignal.quantity
        /\ OtherPositionsUnchanged(AppliedSignal.stock_code)

\* C4 as stated: a BUY order succeeds if and only if cash >= total; on success
\* cash decreases by exactly total, the held quantity increases by exactly the
\* order quantity and no other instrument's position changes.
C4_BuySucceedsIffAffordable ==
    /\ [](\A sig \in BuySignals :
            TradeSuccess(sig) <=> Geq(current_cash, OrderTotal(sig)))
    /\ [][BuyEffect]_vars

\* C4 amended: a BUY order whose price and quantity are both non-zero succeeds
\* if and only if cash >= total, with the same effects on success.
C4_ValidBuySucceedsIffAffordable ==
    /\ [](\A sig \in BuySignals :
            (sig.price # 0 /\ sig.quantity # 0) =>
                (TradeSuccess(sig) <=> Geq(current_cash, OrderTotal(sig))))
    /\ [][BuyEffect]_vars

\* a BUY was applied while another instrument was held
C4_Witness ==
    /\ op = "execute_order"
    /\ ret = TRUE
    /\ trade_logs # << >>
    /\ Last(trade_logs).trade_type = "BUY"
    /\ \E t \in DOMAIN holdings : t # Last(trade_logs).stock_code

\* the sum of notional + commission + slippage over the records of a trade log
RECURSIVE SumOfTotals(_)
SumOfTotals(log) ==
    IF log = << >> THEN Zero
    ELSE Add(OrderTotal(SignalOf(Head(log))), SumOfTotals(Tail(log)))

\* cash is what the buys so far have left of the initial capital, and is >= 0
CashIsCapitalLessTotals ==
    /\ current_cash = Sub(initial_capital, SumOfTotals(trade_logs))
    /\ Geq(current_cash, Zero)

\* C5 as stated: in a sequence of BUY orders, every order that is affordable
\* when it is applied is accepted, cash equals initialCapital minus the sum of
\* the total costs of the buys, and cash is never negative.
C5_AffordableBuysAllAccepted ==
    /\ [](\A sig \in BuySignals :
            Geq(current_cash, OrderTotal(sig)) => TradeSuccess(sig))
    /\ []CashIsCapitalLessTotals

\* C5 amended: the same for BUY orders whose price and quantity are non-zero.
C5_AffordableValidBuysAllAccepted ==
    /\ [](\A sig \in BuySignals :
            (sig.price # 0 /\ sig.quantity # 0 /\ Geq(current_cash, OrderTotal(sig)))
                => TradeSuccess(sig))
    /\ []CashIsCapitalLessTotals

\* three buys were applied under non-zero cost rates
C5_Witness ==
    /\ Len(trade_logs) >= 3
    /\ \A i \in 1..Len(trade_logs) : trade_logs[i].trade_type = "BUY"
    /\ commission_rate # Zero
    /\ slippage_rate # Zero
    /\ op = "execute_order"
    /\ ret = TRUE

SellSignals == {sig \in Signals : sig.signal = "SELL"}

\* the applied order was a SELL: it credited exactly price*quantity - commission
\* - slippage, took exactly the order quantity off the instrument and touched no
\* other position
SellEffect ==
    (Applied /\ AppliedSignal.signal = "SELL") =>
        /\ current_cash' = Add(current_cash, OrderProceeds(AppliedSignal))
        /\ GetHoldingQuantity(holdings', AppliedSignal.stock_code)
             = GetHoldingQuantity(holdings, AppliedSignal.stock_code)
               - AppliedSignal.quantity
        /\ OtherPositionsUnchanged(AppliedSignal.stock_code)

\* C6 as stated: a SELL order succeeds if and only if the held quantity of the
\* instrument is >= the requested quantity; on success cash increases by exactly
\* price*quantity - commission - slippage, the held quantity decreases by
\* exactly the requested quantity and all other positions are unchanged.
C6_SellSucceedsIffHeld ==
    /\ [](\A sig \in SellSignals :
            TradeSuccess(sig)
                <=> GetHoldingQuantity(holdings, sig.stock_code) >= sig.quantity)
    /\ [][SellEffect]_vars

\* C6 amended: a SELL order whose price and quantity are both non-zero succeeds
\* if and only if the instrument has a position entry whose quantity is >= the
\* requested quantity, with the same effects on success.
C6_ValidSellSucceedsIffHeld ==
    /\ [](\A sig \in SellSignals :
            (sig.price # 0 /\ sig.quantity # 0) =>
                (TradeSuccess(sig)
                    <=> /\ sig.stock_code \in DOMAIN holdings
                        /\ GetHoldingQuantity(holdings, sig.stock_code) >= sig.quantity))
    /\ [][SellEffect]_vars

\* a SELL was applied while another instrument was held
C6_Witness ==
    /\ op = "execute_order"
    /\ ret = TRUE
    /\ trade_logs # << >>
    /\ Last(trade_logs).trade_type = "SELL"
    /\ \E t \in DOMAIN holdings : t # Last(trade_logs).stock_code

\* C7: the ledger never holds a position entry with quantity zero, so
\* get_holding_quantity(i) = 0 exactly when i has no entry in holdings, and a
\* BUY of an instrument without an entry starts a fresh entry whose average
\* cost is the fill price.
C7_NoEntryWithZeroQuantity ==
    /\ [](\A s \in Stocks :
            GetHoldingQuantity(holdings, s) = 0 <=> s \notin DOMAIN holdings)
    /\ [][(Applied /\ AppliedSignal.signal = "BUY"
                   /\ AppliedSignal.stock_code \notin DOMAIN holdings)
            => holdings'[AppliedSignal.stock_code].avg_price = Num(AppliedSignal.price)
         ]_vars

\* C8: after every successful BUY of quantity q at price p on an instrument
\* held with quantity Q and average cost A (Q = 0 if not held), the new average
\* cost is (Q*A + q*p)/(Q+q); commission and slippage are no part of it.
C8_AverageCostIsWeightedMean ==
    [][(Applied /\ AppliedSignal.signal = "BUY") =>
          LET s == AppliedSignal.stock_code
              p == AppliedSignal.price
              q == AppliedSignal.quantity
              Q == GetHoldingQuantity(holdings, s)
              A == IF s \in DOMAIN holdings THEN holdings[s].avg_price ELSE Zero
          IN  Q + q # 0 =>
                holdings'[s].avg_price
                    = Div(Add(Mul(Num(Q), A), Num(q * p)), Num(Q + q))
      ]_vars

\* C9: the average cost of a position that remains held changes only on a
\* successful BUY of that instrument: a partial SELL, a rejected order, an order
\* on another instrument and update_current_market_data leave it unchanged.
C9_AverageCostChangesOnlyOnBuy ==
    [][\A s \in DOMAIN holdings \cap DOMAIN holdings' :
          holdings'[s].avg_price # holdings[s].avg_price =>
              /\ Applied
              /\ AppliedSignal.signal = "BUY"
              /\ AppliedSignal.stock_code = s
      ]_vars

\* a partial SELL at a price other than the average cost left the position held
C9_Witness ==
    /\ op = "execute_order"
    /\ ret = TRUE
    /\ trade_logs # << >>
    /\ LET r == Last(trade_logs)
       IN  /\ r.trade_type = "SELL"
           /\ r.quantity > 0
           /\ r.position_size > 0
           /\ r.stock_code \in DOMAIN holdings
           /\ holdings[r.stock_code].avg_price # Num(r.price)

\* C10: realized PnL is recorded only on SELL: the record of a SELL has
\* pnl = (price - average cost held before the sale)*quantity - commission -
\* slippage, whatever the mark and the other positions are, and the record of a
\* BUY has pnl = 0.
C10_PnlOnlyOnSell ==
    [][Applied =>
          LET r == Last(trade_logs')
              notional == Num(r.price * r.quantity)
          IN  IF r.trade_type = "SELL"
              THEN r.pnl = Sub(Sub(Mul(Sub(Num(r.price), holdings[r.stock_code].avg_price),
                                       Num(r.quantity)),
                                   Mul(notional, commission_rate)),
                               Mul(notional, slippage_rate))
              ELSE r.pnl = Zero
      ]_vars

\* a SELL with non-zero PnL and non-zero costs was recorded for a position whose
\* mark had been updated away from its average cost
C10_Witness ==
    /\ op = "execute_order"
    /\ ret = TRUE
    /\ trade_logs # << >>
    /\ portfolio_value_history # << >>
    /\ LET r == Last(trade_logs)
       IN  /\ r.trade_type = "SELL"
           /\ r.pnl # Zero
           /\ r.commission # Zero
           /\ r.stock_code \in DOMAIN holdings
           /\ holdings[r.stock_code].current_price # holdings[r.stock_code].avg_price
           /\ holdings[r.stock_code].current_price # Num(r.price)

\* C11: the trade log is append-only and counts the accepted orders: a call of
\* execute_order that returns True appends exactly one record behind the
\* records already there, every other step leaves the log as it is, and
\* total_trades starts at 0 and grows by one with each accepted order
C11_TradeLogAppendOnly ==
    /\ [](op = "init" => TotalTrades(trade_logs) = 0)
    /\ [][/\ Accepted =>
               /\ Len(trade_logs') = Len(trade_logs) + 1
               /\ SubSeq(trade_logs', 1, Len(trade_logs)) = trade_logs
          /\ ~Accepted => trade_logs' = trade_logs
          /\ TotalTrades(trade_logs') =
                 TotalTrades(trade_logs) + (IF Accepted THEN 1 ELSE 0)]_vars

\* two orders were accepted and a third was then rejected
C11_Witness ==
    /\ Len(trade_logs) = 2
    /\ trade_logs[1] # trade_logs[2]
    /\ op = "execute_order"
    /\ ret = FALSE

\* C12: the snapshot that update_current_market_data has just appended has
\* portfolio_value = cash + the sum over ALL held positions of quantity * mark,
\* the value get_current_portfolio_value() returns at that moment, positions
\* absent from the price map included
C12_SnapshotIsCurrentPortfolioValue ==
    op = "update_current_market_data" =>
        Last(portfolio_value_history).portfolio_value =
            GetCurrentPortfolioValue(current_cash, holdings)

\* the effect of update_current_market_data with the price map market_prices
MarksUpdated(market_prices) ==
    /\ DOMAIN holdings' = DOMAIN holdings
    /\ \A s \in DOMAIN holdings :
           /\ holdings'[s].current_price =
                  IF s \in DOMAIN market_prices THEN Num(market_prices[s])
                  ELSE holdings[s].current_price
           /\ holdings'[s].quantity = holdings[s].quantity
           /\ holdings'[s].avg_price = holdings[s].avg_price
    /\ UNCHANGED <<current_cash, trade_logs>>

\* C13: update_current_market_data sets the mark of every held position whose
\* instrument is in the price map to the mapped price, keeps the mark of every
\* other held position, creates no position, and leaves cash, quantities,
\* average costs and the trade log unchanged
C13_UpdateOnlySetsMarks ==
    [][op' = "update_current_market_data" =>
           \A d \in Dates, market_prices \in PriceMaps :
               UpdateCurrentMarketData(d, market_prices) => MarksUpdated(market_prices)]_vars

\* A and B are held and an update with a price for A alone has been made: A
\* is at the mapped price and B keeps its fill price as mark
C13_Witness ==
    /\ op = "update_current_market_data"
    /\ DOMAIN holdings = {"A", "B"}
    /\ holdings["A"].current_price = Num(3)
    /\ holdings["B"].current_price # Num(3)

(***************************************************************************)
(* Properties of the driver.                                               *)
(***************************************************************************)
\* the while loop of run_backtest has been left
LoopLeft == pc \in {"finished", "results", "returned"}

\* the calendar days from start_date to end_date inclusive
DaysOfRun == {d \in Days : start_date <= d /\ d <= end_date}

\* the distinct intraday timestamps with a row of an instrument of the
\* universe on a day of the run
TimestampsOfRun ==
    {<<d, m>> \in DaysOfRun \X Minutes :
        \E s \in StockSet : HasMinuteBar(bars[s], d, m)}

\* C14: one snapshot per simulation step: after the loop the number of
\* snapshots is the number of calendar days of the run in daily mode and the
\* number of distinct intraday timestamps processed in intraday mode
C14_OneSnapshotPerStep ==
    LoopLeft =>
        Len(portfolio_value_history) =
            IF is_minute_data_test THEN Cardinality(TimestampsOfRun)
            ELSE Cardinality(DaysOfRun)

\* the positions of the calls of kind e in the sequence of calls
Calls(e) == {i \in 1..Len(events) : events[i].e = e}
StepHooks == Calls("on_daily_data") \cup Calls("on_minute_data")
LedgerMutations == Calls("update_current_market_data") \cup Calls("execute_order")

\* INITIALIZING = 1, RUNNING = 2, FINALIZING = 3, DONE = 4; 0 for a run
\* that was refused or broke off
Phase(p) ==
    CASE p \in {"ready", "on_init"} -> 1
      [] p \in {"day_loop", "on_daily_data", "minute_loop", "on_minute_data",
                "execute_order"} -> 2
      [] p \in {"finished", "results"} -> 3
      [] p = "returned" -> 4
      [] OTHER -> 0

CallsInLifecycleOrder ==
    /\ Cardinality(Calls("on_init")) <= 1
    /\ Cardinality(Calls("on_finish")) <= 1
    /\ Cardinality(Calls("get_final_results")) <= 1
    /\ events # << >> => events[1].e = "on_init"
    /\ \A i \in StepHooks \cup LedgerMutations : \A j \in Calls("on_finish") : i < j
    /\ \A i \in Calls("get_final_results") : \E j \in Calls("on_finish") : j < i
    /\ Phase(pc) >= 2 => Cardinality(Calls("on_init")) = 1
    /\ Phase(pc) = 2 => Calls("on_finish") = {}
    /\ Phase(pc) >= 3 => Cardinality(Calls("on_finish")) = 1
    /\ pc \in {"results", "returned"} => Cardinality(Calls("get_final_results")) = 1

\* C15: the driver goes INITIALIZING -> RUNNING -> FINALIZING -> DONE: on_init
\* is the first call and is made once, the step hooks come between on_init and
\* on_finish, on_finish is called once when the loop is left,
\* get_final_results comes after on_finish, and the ledger does not change
\* after on_finish
C15_Lifecycle ==
    /\ [](CallsInLifecycleOrder)
    /\ [][/\ Phase(pc') \in {Phase(pc), Phase(pc) + 1, 0}
          /\ Calls("on_finish") # {} =>
                 UNCHANGED <<current_cash, holdings, trade_logs,
                             portfolio_value_history, current_date>>]_vars

\* a run with a step hook call and an applied order has returned
C15_Witness ==
    /\ pc = "returned"
    /\ StepHooks # {}
    /\ trade_logs # << >>

\* a configuration the driver is to accept: a non-empty universe,
\* start_date <= end_date and a positive initial capital
ValidConfiguration ==
    /\ stock_list # << >>
    /\ start_date # None
    /\ end_date # None
    /\ start_date <= end_date
    /\ Gt(initial_capital, Zero)

\* C16: with a valid configuration and the reference
\* MovingAverageCrossoverStrategy, run_backtest gets past on_init: the run is
\* never broken off by the call
C16_ReferenceRunPassesInit ==
    (ValidConfiguration /\ strategy = "MovingAverageCrossoverStrategy") =>
        pc # "raised"

\* the timestamps of the rows stored for the instrument s in the table the
\* mode of the run reads
StoredTimestamps(s) ==
    IF is_minute_data_test
    THEN {ts \in Days \X Minutes : HasMinuteBar(bars[s], ts[1], ts[2])}
    ELSE {ts \in Days \X {0} : HasDailyBar(bars[s], ts[1])}

\* no row of a window handed to the strategy is later than the instant t
WindowsNotAhead ==
    \A s \in DOMAIN hook_call.data :
        \A i \in 1..Len(hook_call.data[s]) :
            TsLeq(hook_call.data[s][i].ts, hook_call.t)

\* every mark handed to the ledger is the close of the instrument's latest
\* stored row that is not later than the instant t
MarksAreLatestClose ==
    \A s \in DOMAIN mark_call.data :
        LET seen == {ts \in StoredTimestamps(s) : TsLeq(ts, mark_call.t)}
        IN  \E ts \in seen :
                /\ \A u \in seen : TsLeq(u, ts)
                /\ mark_call.data[s] = ClosePrice(s, ts[1], ts[2])

\* C17: no lookahead, in daily and in intraday mode: at a step with instant t
\* every row of every window handed to the strategy has a timestamp <= t, and
\* the mark handed to the ledger for an instrument is the close of its latest
\* row with timestamp <= t
C17_NoLookahead == WindowsNotAhead /\ MarksAreLatestClose

\* the step hook was called for day 1 with a window and a mark for A, and A
\* has a stored row for day 2
C17_Witness ==
    /\ ~is_minute_data_test
    /\ "A" \in DOMAIN hook_call.data
    /\ "A" \in DOMAIN mark_call.data
    /\ hook_call.t = DateOf(1)
    /\ mark_call.t = DateOf(1)
    /\ HasDailyBar(bars["A"], 2)

\* all stored rows of the instrument s from the start of the run up to and
\* including the instant t, in ascending order of time
RECURSIVE RowsInOrder(_, _)
RowsInOrder(s, T) ==
    IF T = {} THEN << >>
    ELSE LET ts == CHOOSE x \in T : \A y \in T : TsLeq(x, y)
         IN  <<Bar(s, ts[1], ts[2])>> \o RowsInOrder(s, T \ {ts})
RowsOfRunUpTo(s, t) ==
    RowsInOrder(s, {ts \in StoredTimestamps(s) :
                       TsLeq(DateOf(start_date), ts) /\ TsLeq(ts, t)})

\* C18: at every step, daily or intraday, the window handed to the strategy
\* for an instrument holds ALL rows of the instrument from the start of the
\* run up to and including the current instant, rows of earlier calendar days
\* of the run included
C18_WindowsAreCumulative ==
    \A s \in DOMAIN hook_call.data :
        hook_call.data[s] = RowsOfRunUpTo(s, hook_call.t)

\* the number of execute_order calls that directly follow the call at i
RECURSIVE OrdersAfter(_)
OrdersAfter(i) ==
    IF i < Len(events) /\ events[i + 1].e = "execute_order"
    THEN 1 + OrdersAfter(i + 1)
    ELSE 0

\* every step hook call directly follows the mark update of its instant
HookFollowsItsUpdate ==
    \A i \in StepHooks :
        /\ i > 1
        /\ events[i - 1].e = "update_current_market_data"
        /\ events[i - 1].t = events[i].t

\* the execute_order calls are the returned signals, in the order returned,
\* none left out and none repeated; signals not yet passed on are still
\* waiting, and nothing else happens before the last one is passed on
SignalsAppliedInOrder ==
    /\ \A i \in Calls("execute_order") :
           i > 1 /\ (i - 1 \in StepHooks \/ i - 1 \in Calls("execute_order"))
    /\ \A i \in StepHooks :
           LET reply == events[i].arg
               n == OrdersAfter(i)
           IN  /\ n <= Len(reply)
               /\ \A k \in 1..n : events[i + k].arg = reply[k]
               /\ IF i + n = Len(events)
                  THEN signals = SubSeq(reply, n + 1, Len(reply))
                  ELSE n = Len(reply)

\* every mark update is followed by a step hook call
EveryUpdateHasItsHook ==
    \A i \in Calls("update_current_market_data") :
        i < Len(events) => i + 1 \in StepHooks

OneSnapshotPerDayInOrder ==
    /\ \A k \in 1..Len(portfolio_value_history) :
           portfolio_value_history[k].date = DateOf(start_date + k - 1)
    /\ Len(portfolio_value_history) <= Cardinality(DaysOfRun)
    /\ LoopLeft => Len(portfolio_value_history) = Cardinality(DaysOfRun)

\* the timestamps of successive snapshots are strictly increasing, those of
\* successive trade records never decrease, and every trade record carries
\* the date of the snapshot of its step
TimestampsInOrder ==
    /\ \A i, j \in 1..Len(portfolio_value_history) :
           i < j => TsLt(portfolio_value_history[i].date,
                         portfolio_value_history[j].date)
    /\ \A i, j \in 1..Len(trade_logs) :
           i < j => TsLeq(trade_logs[i].trade_date, trade_logs[j].trade_date)
    /\ \A i \in 1..Len(trade_logs) :
           \E k \in 1..Len(portfolio_value_history) :
               trade_logs[i].trade_date = portfolio_value_history[k].date

\* a trade record appended in a step later than the one of the last record
\* has a strictly later timestamp
LaterStepLaterRecord ==
    (Len(trade_logs') = Len(trade_logs) + 1 /\ trade_logs # << >>) =>
        /\ Last(trade_logs').trade_date = Last(portfolio_value_history).date
        /\ Last(trade_logs).trade_date # Last(portfolio_value_history).date =>
               TsLt(Last(trade_logs).trade_date, Last(trade_logs').trade_date)

\* C20: in daily mode the driver makes exactly one step per calendar day from
\* start_date to end_date inclusive, in strictly increasing date order; the
\* timestamps of successive snapshots and of successive trade records never
\* decrease and strictly increase from one step to the next
C20_DailyStepsInDateOrder ==
    /\ []((~is_minute_data_test /\ Phase(pc) >= 2) =>
              (OneSnapshotPerDayInOrder /\ TimestampsInOrder))
    /\ [][~is_minute_data_test => LaterStepLaterRecord]_vars

\* a daily run of two days has returned with a trade record of each day
C20_Witness ==
    /\ ~is_minute_data_test
    /\ pc = "returned"
    /\ Len(portfolio_value_history) >= 2
    /\ \E i, j \in 1..Len(trade_logs) :
           TsLt(trade_logs[i].trade_date, trade_logs[j].trade_date)

\* the on_daily_data calls made for the calendar day d
DailyHookCallsOn(d) ==
    {i \in Calls("on_daily_data") : events[i].t = DateOf(d)}

\* the calendar days of the run whose step is over
DaysDone ==
    IF Phase(pc) >= 3 THEN DaysOfRun
    ELSE IF Phase(pc) = 2 THEN {d \in DaysOfRun : d < current_date_iter}
    ELSE {}

\* an instrument of the universe has a stored daily row from start_date to d
SomeDailyRowUpTo(d) ==
    \E s \in StockSet : \E x \in Days :
        start_date <= x /\ x <= d /\ HasDailyBar(bars[s], x)

RECURSIVE InTimeOrder(_)
InTimeOrder(T) ==
    IF T = {} THEN << >>
    ELSE LET ts == CHOOSE x \in T : \A y \in T : TsLeq(x, y)
         IN  <<ts>> \o InTimeOrder(T \ {ts})

\* the distinct timestamps in the minute rows of the universe on the day d
TimestampsOn(d) ==
    {ts \in {d} \X Minutes : \E s \in StockSet : HasMinuteBar(bars[s], d, ts[2])}

\* the instants of the calls of kind e made at a minute of the day d, in the
\* order of the calls
InstantsOfCalls(e, d) ==
    LET calls == SelectSeq(events, LAMBDA ev : ev.e = e /\ ev.t[1] = d /\ ev.t[2] # 0)
    IN  [i \in 1..Len(calls) |-> calls[i].t]

IsPrefix(p, q) == Len(p) <= Len(q) /\ p = SubSeq(q, 1, Len(p))

\* the instruments of the universe whose first row of the day of the instant
\* t is not later than t
InstrumentsWithRowUpTo(t) ==
    {s \in StockSet : \E m \in Minutes : m <= t[2] /\ HasMinuteBar(bars[s], t[1], m)}

\* C22: in intraday mode the steps of a calendar day are the distinct
\* timestamps of the day's rows, in ascending order, each once: each gets one
\* mark update directly followed by one on_minute_data call, the returned
\* signals are applied, and the window and the price map hold exactly the
\* instruments whose first row of the day is not later than the timestamp
C22_IntradaySteps ==
    is_minute_data_test =>
        /\ \A d \in DaysOfRun :
               /\ IsPrefix(InstantsOfCalls("on_minute_data", d),
                           InTimeOrder(TimestampsOn(d)))
               /\ IsPrefix(InstantsOfCalls("update_current_market_data", d),
                           InTimeOrder(TimestampsOn(d)))
        /\ \A d \in DaysDone :
               /\ InstantsOfCalls("on_minute_data", d) = InTimeOrder(TimestampsOn(d))
               /\ InstantsOfCalls("update_current_market_data", d) =
                      InTimeOrder(TimestampsOn(d))
        /\ HookFollowsItsUpdate
        /\ SignalsAppliedInOrder
        /\ Calls("on_minute_data") # {} =>
               DOMAIN hook_call.data = InstrumentsWithRowUpTo(hook_call.t)
        /\ (DOMAIN mark_call.data # {} \/ Calls("on_minute_data") # {}) =>
               (mark_call.t[2] # 0 =>
                    DOMAIN mark_call.data = InstrumentsWithRowUpTo(mark_call.t))

\* an intraday day with two timestamps is over: B's first row of the day is
\* at the second one, the step of the first one had A alone, and the signals
\* of both steps were applied
C22_Witness ==
    /\ is_minute_data_test
    /\ bars = [s \in Stocks |-> IF s = "A" THEN "all" ELSE "second"]
    /\ 1 \in DaysDone
    /\ \E i \in Calls("on_minute_data") : events[i].t = <<1, 1>> /\ events[i].arg # << >>
    /\ \E i \in Calls("on_minute_data") : events[i].t = <<1, 2>> /\ events[i].arg # << >>

\* the instrument s has a stored row at the instant t
RowAt(s, t) ==
    IF is_minute_data_test
    THEN t[2] # 0 /\ HasMinuteBar(bars[s], t[1], t[2])
    ELSE HasDailyBar(bars[s], t[1])

\* the instrument s has no stored row from the start of the run up to t
NoRowUpTo(s, t) ==
    \A ts \in StoredTimestamps(s) :
        ~(TsLeq(DateOf(start_date), ts) /\ TsLeq(ts, t))

\* an instrument without a row up to the step is in neither the window map
\* nor the price map of the step, and no price of the map is 0
MissingInstrumentOmitted ==
    /\ \A s \in StockSet :
           /\ (StepHooks # {} /\ NoRowUpTo(s, hook_call.t)) =>
                  s \notin DOMAIN hook_call.data
           /\ (Calls("update_current_market_data") # {} /\ NoRowUpTo(s, mark_call.t)) =>
                  s \notin DOMAIN mark_call.data
    /\ \A s \in DOMAIN mark_call.data : mark_call.data[s] # 0

\* an instrument with a row at the instant of the step is in the window map
\* and in the price map of the step, with the close of that row as price
PresentInstrumentIncluded ==
    \A s \in StockSet :
        /\ (StepHooks # {} /\ RowAt(s, hook_call.t)) =>
               s \in DOMAIN hook_call.data
        /\ (Calls("update_current_market_data") # {} /\ RowAt(s, mark_call.t)) =>
               /\ s \in DOMAIN mark_call.data
               /\ mark_call.data[s] = ClosePrice(s, mark_call.t[1], mark_call.t[2])

\* every day that is over had its mark update, and the hook was called at
\* every instant of it at which an instrument has a row
EveryStepMade ==
    \A d \in DaysDone :
        /\ \E i \in Calls("update_current_market_data") : events[i].t = DateOf(d)
        /\ \A t \in (IF is_minute_data_test THEN TimestampsOn(d) ELSE {DateOf(d)}) :
               (\E s \in StockSet : RowAt(s, t)) =>
                   \E i \in StepHooks : events[i].t = t

\* the longest list of signals a hook returns
MaxReply == Len(CHOOSE r \in StrategyReplies : \A q \in StrategyReplies : Len(q) <= Len(r))

\* an upper limit of the steps run_backtest still has to make: the signals
\* of the step, the timestamps of the day and the days of the range left,
\* then on_finish, get_final_results and the return
StepsLeft ==
    LET PerStep == 2 + MaxReply
        PerDay == 3 + MaxReply + PerStep * Cardinality(Minutes)
        DaysLeft == IF current_date_iter <= end_date
                    THEN end_date + 1 - current_date_iter ELSE 0
        InDay == PerDay * (DaysLeft - 1) + 4 + PerStep * Len(all_datetimes)
    IN  CASE pc = "ready" -> PerDay * MaxDay + 5
          [] pc = "on_init" -> PerDay * MaxDay + 4
          [] pc = "day_loop" -> PerDay * DaysLeft + 3
          [] pc = "minute_loop" -> InDay
          [] pc \in {"on_daily_data", "on_minute_data"} -> InDay + 1 + MaxReply
          [] pc = "execute_order" -> InDay + Len(signals)
          [] pc = "finished" -> 2
          [] pc = "results" -> 1
          [] OTHER -> 0

\* run_backtest is at a place from which it goes on: inside a loop there is
\* an element left to take, and it has not stopped on an exception
GoesOn ==
    /\ pc = "minute_loop" => all_datetimes # << >>
    /\ pc = "execute_order" => signals # << >>
    /\ pc \in {"on_daily_data", "minute_loop", "on_minute_data", "execute_order"} =>
           current_date_iter <= end_date
    /\ pc # "raised" \/ Calls("update_current_market_data") = {}

\* C23: missing data is not fatal and stays local to the step: an instrument
\* without rows up to the step is left out of the step's window map and price
\* map (never priced 0), the instruments that have a row are handled as
\* usual, an instrument is taken in at the first step at which it has a row,
\* and the run makes every step and comes to its end: it never stops inside
\* the loop and every step brings it nearer to the return
C23_MissingDataIsLocal ==
    /\ [](MissingInstrumentOmitted /\ PresentInstrumentIncluded /\ EveryStepMade)
    /\ [](GoesOn /\ (pc = "returned" => DaysDone = DaysOfRun))
    /\ [][StepsLeft' < StepsLeft /\ (pc' = "raised" => pc = "on_init")]_vars

\* a daily run over days 1 and 2 has returned: B had no row on day 1 and was
\* taken in on day 2 next to A, and orders were applied
C23_Witness ==
    /\ ~is_minute_data_test
    /\ pc = "returned"
    /\ bars = [s \in Stocks |-> IF s = "A" THEN "all" ELSE "late"]
    /\ DaysOfRun = {1, 2}
    /\ Cardinality(StepHooks) = 2
    /\ DOMAIN hook_call.data = {"A", "B"}
    /\ trade_logs # << >>

\* the execute_order calls of the run that returned False
Rejections == Cardinality(Calls("execute_order")) - Len(trade_logs)

\* a rejected order leaves the loop where it was: the next signal of the
\* step is taken next, or the step ends and the run goes on with the next one
RejectionPassedOver ==
    (pc = "execute_order" /\ ~ret') =>
        /\ signals' = Tail(signals)
        /\ pc' = IF signals' # << >> THEN "execute_order"
                 ELSE IF all_datetimes # << >> THEN "minute_loop" ELSE "day_loop"
        /\ Len(events') = Len(events) + 1
        /\ StepsLeft' < StepsLeft

\* a run that has returned made every step of its range, called on_finish and
\* computed the final results
RunCompleted ==
    pc = "returned" =>
        /\ DaysDone = DaysOfRun
        /\ EveryStepMade
        /\ Cardinality(Calls("on_finish")) = 1
        /\ Cardinality(Calls("get_final_results")) = 1

\* C24: an order rejection never aborts the run: after execute_order has
\* returned False the remaining signals of the step are still applied in the
\* order returned, the later steps are still made, and the run comes to
\* on_finish and to its final results
C24_RejectionDoesNotAbort ==
    /\ [](SignalsAppliedInOrder /\ GoesOn /\ RunCompleted)
    /\ [][RejectionPassedOver /\ StepsLeft' < StepsLeft]_vars

\* a run has returned in which the first order of the first step (SELL B with
\* nothing held) was rejected, the order after it (BUY B) was applied, and a
\* later step was made
C24_Witness ==
    /\ pc = "returned"
    /\ Rejections > 0
    /\ Cardinality(StepHooks) >= 2
    /\ \E i \in StepHooks :
           /\ \A j \in StepHooks : i <= j
           /\ Len(events[i].arg) = 2
           /\ events[i].arg[1] = Order("SELL", "B", 1, 1)
           /\ events[i + 2].e = "execute_order"
    /\ trade_logs # << >>
    /\ trade_logs[1].trade_type = "BUY"
    /\ trade_logs[1].stock_code = "B"

\* load_data_for_backtest has given the driver no universe or no date range
NotLoaded == stock_list = << >> \/ start_date = None \/ end_date = None

\* the ledger is as the constructor left it
LedgerUntouched ==
    /\ current_cash = initial_capital
    /\ \A s \in Stocks : GetHoldingQuantity(holdings, s) = 0
    /\ trade_logs = << >>
    /\ portfolio_value_history = << >>

\* C25: with an empty universe or no date range the call of run_backtest
\* calls no strategy hook, leaves the ledger alone, produces no snapshot and
\* no trade record, hands nothing to the result store, and ends in an error
\* raised to the caller, not in a normal return
C25_NotLoadedIsFatalError ==
    (NotLoaded /\ pc # "ready") =>
        /\ events = << >>
        /\ LedgerUntouched
        /\ pc = "raised"

\* the date range is reversed or the initial capital is not positive
InvalidRangeOrCapital ==
    /\ ~NotLoaded
    /\ start_date > end_date \/ Leq(initial_capital, Zero)

\* C26: with start_date > end_date or a non-positive initial capital the
\* driver stops before the run: the strategy is neither initialised nor
\* finished, no final result is computed or returned, and nothing is handed
\* to the result store
C26_InvalidConfigurationAborts ==
    InvalidRangeOrCapital =>
        /\ Calls("on_init") = {}
        /\ Calls("on_finish") = {}
        /\ Calls("get_final_results") = {}
        /\ Calls("_save_backtest_results_to_db") = {}
        /\ pc \notin {"results", "returned"}

\* a call of run_backtest on the instance has completed
RunDone == Calls("_save_backtest_results_to_db") # {}

\* C27: DONE is terminal: once a call of run_backtest on a driver instance
\* has completed, no later call on the instance calls a strategy hook or
\* applies an order or a mark update: cash, holdings, trade log and snapshot
\* history stay as they were at the end of the first run
C27_DoneIsTerminal ==
    [][RunDone =>
           /\ Calls("on_init")' = Calls("on_init")
           /\ StepHooks' = StepHooks
           /\ Calls("on_finish")' = Calls("on_finish")
           /\ LedgerMutations' = LedgerMutations
           /\ UNCHANGED <<current_cash, holdings, trade_logs,
                          portfolio_value_history>>]_vars

\* the save of the results failed: no connection, or an insert raised
SaveFailed ==
    \E i \in Calls("_save_backtest_results_to_db") : events[i].arg # <<"committed">>

\* what run_backtest hands to its caller: how the call ended and, after a
\* return, the trade log and the snapshot history the results are made of
CallerGets ==
    [ended |-> pc,
     trade_logs |-> IF pc = "returned" THEN trade_logs ELSE << >>,
     portfolio_history |-> IF pc = "returned" THEN portfolio_value_history ELSE << >>]

\* C28: a failure of the save does not spoil the results in memory: the save
\* changes nothing in the ledger (cash, holdings, trade log and snapshot
\* history are as computed), the results computed are what the caller gets,
\* and the caller is told of the failure: the call does not end like a call
\* whose save succeeded
C28_SaveFailureSurfaced ==
    /\ [][pc = "results" =>
              /\ UNCHANGED <<current_cash, holdings, trade_logs,
                             portfolio_value_history, current_date>>
              /\ CallerGets'.trade_logs = trade_logs
              /\ CallerGets'.portfolio_history = portfolio_value_history]_vars
    /\ [](SaveFailed => CallerGets.ended # "returned")

\* the snapshot values of the ledger
SnapshotValues == PortfolioValues(portfolio_value_history)

\* the largest snapshot value up to and including snapshot i
RunningPeak(i) ==
    CHOOSE v \in {SnapshotValues[j] : j \in 1..i} :
        \A j \in 1..i : Leq(SnapshotValues[j], v)

\* a reported value is a number that is at most 0
NumberAtMostZero(x) == x.d # 0 /\ Leq(x, Zero)

\* C29: the max drawdown get_final_results reports at the end of a run is a
\* number <= 0; it is 0 when there are no snapshots or no snapshot value is
\* below the running peak; and it is the least of
\* (value - runningPeak) / runningPeak * 100 over the snapshots
C29_MaxDrawdown ==
    pc \in {"results", "returned"} =>
        LET max_drawdown == MaxDrawdown(portfolio_value_history)
            n == Len(portfolio_value_history)
        IN  /\ NumberAtMostZero(max_drawdown)
            /\ (\A i \in 1..n : SnapshotValues[i] = RunningPeak(i)) =>
                   max_drawdown = Zero
            /\ \A i \in 1..n :
                   /\ RunningPeak(i).n # 0
                   /\ Leq(max_drawdown,
                          Mul(Div(Sub(SnapshotValues[i], RunningPeak(i)),
                                  RunningPeak(i)), Num(100)))
            /\ n > 0 =>
                   \E i \in 1..n :
                       max_drawdown =
                           Mul(Div(Sub(SnapshotValues[i], RunningPeak(i)),
                                   RunningPeak(i)), Num(100))

\* the number of SELL records among the first k trade records, and the number
\* of those with a positive pnl
RECURSIVE Sells(_)
Sells(k) ==
    IF k = 0 THEN 0
    ELSE Sells(k - 1) + (IF trade_logs[k].trade_type = "SELL" THEN 1 ELSE 0)

RECURSIVE Wins(_)
Wins(k) ==
    IF k = 0 THEN 0
    ELSE Wins(k - 1) + (IF /\ trade_logs[k].trade_type = "SELL"
                           /\ trade_logs[k].pnl.n > 0
                        THEN 1 ELSE 0)

\* the market value of the holdings is above what was paid for them
UnrealizedGain ==
    \E s \in DOMAIN holdings :
        /\ holdings[s].quantity > 0
        /\ Gt(holdings[s].current_price, holdings[s].avg_price)

\* C30: the win rate of get_final_results is 100 * (SELL records with
\* pnl > 0) / (SELL records), is 0 when the trade log has no SELL, lies in
\* [0, 100], and is changed neither by a BUY record nor by a mark update,
\* whatever gain the open positions show
C30_WinRate ==
    /\ [](LET n == Len(trade_logs)
              win_rate == WinRate(trade_logs)
          IN  /\ Sells(n) = 0 => win_rate = Zero
              /\ Sells(n) > 0 => win_rate = Frac(100 * Wins(n), Sells(n))
              /\ Leq(Zero, win_rate)
              /\ Leq(win_rate, Num(100)))
    /\ [][(\/ op' = "update_current_market_data"
           \/ /\ Len(trade_logs') = Len(trade_logs) + 1
              /\ Last(trade_logs').trade_type = "BUY") =>
              WinRate(trade_logs') = WinRate(trade_logs)]_vars

\* the results of a run are computed from a trade log with a BUY, a SELL with
\* a gain and a SELL without one, while an open position shows a gain: the
\* win rate is 50
C30_Witness ==
    /\ pc = "results"
    /\ \E i \in 1..Len(trade_logs) : trade_logs[i].trade_type = "BUY"
    /\ Wins(Len(trade_logs)) = 1
    /\ Sells(Len(trade_logs)) = 2
    /\ UnrealizedGain
    /\ WinRate(trade_logs) = Num(50)

\* the dict the get_final_results call of the run returned
Reported == events[CHOOSE i \in Calls("get_final_results") : TRUE].arg[1]

\* quantity * last mark of the position in stock_code, 0 without a position
PositionValue(stock_code) ==
    IF stock_code \in DOMAIN holdings
    THEN Mul(Num(holdings[stock_code].quantity), holdings[stock_code].current_price)
    ELSE Zero

\* cash + the sum of quantity * last mark over the held positions
CashPlusPositions == Add(current_cash, Add(PositionValue("A"), PositionValue("B")))

\* C31: at the end of a run get_final_results reports final_capital = cash +
\* sum of quantity * last mark over the held positions and total_return =
\* (final_capital - initial capital) / initial capital * 100, or 0 when the
\* initial capital is not positive; a run without an accepted order reports
\* the initial capital and a return of 0
C31_FinalCapitalAndReturn ==
    pc \in {"results", "returned"} =>
        /\ Reported.final_capital = CashPlusPositions
        /\ Reported.initial_capital = initial_capital
        /\ Gt(initial_capital, Zero) =>
               Reported.total_return =
                   Mul(Div(Sub(CashPlusPositions, initial_capital), initial_capital),
                       Num(100))
        /\ Leq(initial_capital, Zero) => Reported.total_return = Zero
        /\ trade_logs = << >> =>
               /\ Reported.final_capital = initial_capital
               /\ Reported.total_return = Zero

\* the results of a run are computed while a position bought in the run is
\* held at a mark above its price: the return is positive and final_capital
\* is above the cash
C31_Witness ==
    /\ pc = "results"
    /\ trade_logs # << >>
    /\ \E s \in DOMAIN holdings : holdings[s].quantity > 0
    /\ Gt(Reported.final_capital, current_cash)
    /\ Gt(Reported.total_return, Zero)

\* the orders of the scenario
ScenarioBuy == Order("BUY", "A", 50000, 10)
ScenarioSell == Order("SELL", "A", 51000, 10)

\* the trade record k is that of the order sig
RecordOf(k, sig) ==
    /\ trade_logs[k].trade_type = sig.signal
    /\ trade_logs[k].stock_code = sig.stock_code
    /\ trade_logs[k].price = sig.price
    /\ trade_logs[k].quantity = sig.quantity

\* the first call on the new ledger was the BUY of the scenario
BoughtFirst ==
    /\ trade_logs # << >>
    /\ RecordOf(1, ScenarioBuy)
    /\ trade_logs[1].trade_date = None

\* then A was marked at 51,000 and nothing else was done
ThenMarked ==
    /\ BoughtFirst
    /\ Len(trade_logs) = 1
    /\ Len(portfolio_value_history) = 1
    /\ holdings["A"].current_price = Num(51000)

\* then the SELL of the scenario was the next applied order
ThenSold ==
    /\ BoughtFirst
    /\ Len(trade_logs) = 2
    /\ RecordOf(2, ScenarioSell)
    /\ trade_logs[2].trade_date # None
    /\ Len(portfolio_value_history) = 1
    /\ portfolio_value_history[1].holdings_value = Num(510000)

\* C32: the scenario: with capital 1,000,000, commission rate 0.00015 and
\* slippage rate 0.0001, BUY 10 @ 50,000 is accepted and leaves cash 499,875
\* and average cost 50,000; a mark of 51,000 gives the portfolio value
\* 1,009,875; SELL 10 @ 51,000 is accepted with commission 76.5, slippage 51
\* and realized pnl 9,872.5, leaves cash 1,009,747.5 and removes the position
C32_Scenario ==
    /\ op = "init" => TradeSuccess(ScenarioBuy)
    /\ (BoughtFirst /\ Len(trade_logs) = 1 /\ portfolio_value_history = << >>) =>
           /\ current_cash = Num(499875)
           /\ holdings["A"].avg_price = Num(50000)
           /\ holdings["A"].quantity = 10
           /\ trade_logs[1].commission = Num(75)
           /\ trade_logs[1].slippage = Num(50)
    /\ ThenMarked =>
           /\ portfolio_value_history[1].portfolio_value = Num(1009875)
           /\ GetCurrentPortfolioValue(current_cash, holdings) = Num(1009875)
           /\ TradeSuccess(ScenarioSell)
    /\ ThenSold =>
           /\ trade_logs[2].commission = Frac(153, 2)
           /\ trade_logs[2].slippage = Num(51)
           /\ trade_logs[2].pnl = Frac(19745, 2)
           /\ current_cash = Frac(2019495, 2)
           /\ "A" \notin DOMAIN holdings

\* the three steps of the scenario were made: the position is sold
C32_Witness ==
    /\ ThenSold
    /\ op = "execute_order"
    /\ ret
    /\ current_cash = Frac(2019495, 2)

\* the signals the step hook has just returned, none of them applied yet
JustReturned ==
    IF events # << >> /\ Last(events).e = "on_daily_data"
    THEN Last(events).arg ELSE << >>

\* the ledger holds the instrument
Held(stock_code) == GetHoldingQuantity(holdings, stock_code) > 0

\* C33: the reference strategy never returns a BUY for an instrument the
\* ledger holds at that moment (after an accepted BUY a later upward
\* crossover gives no BUY until the position is sold): what the strategy
\* takes for held is what the ledger holds
C33_NoBuyWhileHeld ==
    /\ \A k \in 1..Len(JustReturned) :
           JustReturned[k].signal = "BUY" => ~Held(JustReturned[k].stock_code)
    /\ \A s \in DOMAIN strategy.current_positions :
           strategy.current_positions[s] <=> Held(s)

\* the average of the n closes of the instrument up to day d
RECURSIVE ClosesSum(_, _, _)
ClosesSum(stock_code, d, n) ==
    IF n = 0 THEN 0 ELSE bars[stock_code][d] + ClosesSum(stock_code, d - 1, n - 1)
Average(stock_code, d, n) == Frac(ClosesSum(stock_code, d, n), n)

\* the bars needed for both averages
EnoughBars == IF ShortWindow >= LongWindow THEN ShortWindow ELSE LongWindow

\* on day d the short average of the instrument falls through the long one,
\* or rises through it, between the evaluations of day d - 1 and day d
DownwardCrossover(stock_code, d) ==
    /\ d - 1 >= EnoughBars
    /\ Geq(Average(stock_code, d - 1, ShortWindow), Average(stock_code, d - 1, LongWindow))
    /\ Lt(Average(stock_code, d, ShortWindow), Average(stock_code, d, LongWindow))
UpwardCrossover(stock_code, d) ==
    /\ d - 1 >= EnoughBars
    /\ Leq(Average(stock_code, d - 1, ShortWindow), Average(stock_code, d - 1, LongWindow))
    /\ Gt(Average(stock_code, d, ShortWindow), Average(stock_code, d, LongWindow))

\* C34: on a downward crossover the reference strategy returns a SELL exactly
\* when the ledger holds the instrument at that step, for the quantity the
\* ledger holds, so that a position opened by an accepted BUY is sold in
\* full at the next downward crossover and the SELL is not rejected
C34_SellOnDownwardCrossover ==
    (events # << >> /\ Last(events).e = "on_daily_data") =>
        \A s \in StockSet :
            LET d == hook_call.t[1]
            IN  /\ (DownwardCrossover(s, d) /\ Held(s)) <=>
                       \E k \in 1..Len(JustReturned) :
                           /\ JustReturned[k].signal = "SELL"
                           /\ JustReturned[k].stock_code = s
                /\ \A k \in 1..Len(JustReturned) :
                       (JustReturned[k].signal = "SELL" /\ JustReturned[k].stock_code = s) =>
                           JustReturned[k].quantity = GetHoldingQuantity(holdings, s)

\* the signal the hook call of this step returns for the instrument: "HOLD"
\* when the returned list has none
ReturnedFor(stock_code) ==
    IF \E k \in 1..Len(JustReturned') : JustReturned'[k].stock_code = stock_code
    THEN (CHOOSE x \in {JustReturned'[k] : k \in 1..Len(JustReturned')} :
              x.stock_code = stock_code).signal
    ELSE "HOLD"

\* C36: the reference strategy signals only on a crossover between two
\* evaluations that follow each other: for an instrument it returns HOLD when
\* the window has fewer than max(short_window, long_window) bars (the stored
\* averages then stay as they are) or when no averages are stored; a BUY
\* needs previous short <= previous long and current short > current long, a
\* SELL previous short >= previous long and current short < current long;
\* after an evaluation with enough bars the stored averages are the current
\* ones, with or without a signal
C36_SignalsOnlyOnCrossover ==
    [][pc = "on_daily_data" =>
          \A s \in StockSet :
              LET d == current_date_iter
                  bars_in_window == d + 1 - start_date
                  previous_short == strategy.previous_short_ma[s]
                  previous_long == strategy.previous_long_ma[s]
                  current_short == Average(s, d, ShortWindow)
                  current_long == Average(s, d, LongWindow)
              IN  IF bars_in_window < EnoughBars
                  THEN /\ ReturnedFor(s) = "HOLD"
                       /\ strategy'.previous_short_ma[s] = previous_short
                       /\ strategy'.previous_long_ma[s] = previous_long
                  ELSE /\ (previous_short = NoAverage \/ previous_long = NoAverage) =>
                              ReturnedFor(s) = "HOLD"
                       /\ ReturnedFor(s) = "BUY" =>
                              /\ Leq(previous_short, previous_long)
                              /\ Gt(current_short, current_long)
                       /\ ReturnedFor(s) = "SELL" =>
                              /\ Geq(previous_short, previous_long)
                              /\ Lt(current_short, current_long)
                       /\ strategy'.previous_short_ma[s] = current_short
                       /\ strategy'.previous_long_ma[s] = current_long]_vars

\* the hook has returned a BUY of A on an upward crossover, and on a day
\* before it had stored averages without a signal
C36_Witness ==
    /\ JustReturned # << >>
    /\ JustReturned[1] = Order("BUY", "A", bars["A"][hook_call.t[1]], 1)
    /\ UpwardCrossover("A", hook_call.t[1])
    /\ hook_call.t[1] > EnoughBars + 1
    /\ trade_logs = << >>
    /\ strategy.previous_short_ma["A"] = Average("A", hook_call.t[1], ShortWindow)
    /\ strategy.previous_long_ma["B"] = Average("B", hook_call.t[1], LongWindow)

\* quantity * last mark of the entry of stock_code in the positions h
ValueIn(h, stock_code) ==
    IF stock_code \in DOMAIN h
    THEN Mul(Num(h[stock_code].quantity), h[stock_code].current_price)
    ELSE Zero

\* cash + the sum of quantity * last mark over the positions h
TotalValue(cash, h) == Add(cash, Add(ValueIn(h, "A"), ValueIn(h, "B")))

\* the record the accepted order sig has appended describes the ledger as the
\* order has left it; the order of a step is the one whose execution the step
\* is
RecordConsistent(sig) ==
    LET r == Last(trade_logs')
    IN  /\ Len(trade_logs') = Len(trade_logs) + 1
        /\ r.trade_type = sig.signal
        /\ r.stock_code = sig.stock_code
        /\ r.position_size = (IF sig.stock_code \in DOMAIN holdings'
                               THEN holdings'[sig.stock_code].quantity
                               ELSE 0)
        /\ r.portfolio_value = TotalValue(current_cash', holdings')
        /\ portfolio_value_history # << >> =>
               r.trade_date = Last(portfolio_value_history).date
        /\ r.price = sig.price
        /\ r.quantity = sig.quantity
        /\ r.commission = Mul(Mul(Num(sig.price), Num(sig.quantity)), commission_rate)
        /\ r.slippage = Mul(Mul(Num(sig.price), Num(sig.quantity)), slippage_rate)

\* C37: every TradeRecord is consistent with the ledger state immediately
\* after its order: position_size is the held quantity after the order (0
\* after a full sale), portfolio_value is cash + sum of quantity * lastMark
\* after the order, trade_date is the timestamp of the most recent mark update,
\* and price, quantity, commission = price * quantity * commissionRate and
\* slippage = price * quantity * slippageRate are those of the order
C37_RecordConsistentWithLedger ==
    [][Accepted => /\ AppliedSignal \in Signals
                   /\ ExecuteOrder(AppliedSignal)
                   /\ RecordConsistent(AppliedSignal)]_vars

\* a full sale under non-zero rates, made after a mark update, has been
\* recorded with position_size 0 and the value of the cash alone
C37_Witness ==
    /\ op = "execute_order"
    /\ ret = TRUE
    /\ Last(trade_logs).trade_type = "SELL"
    /\ Last(trade_logs).position_size = 0
    /\ Last(trade_logs).stock_code \notin DOMAIN holdings
    /\ Last(trade_logs).commission # Zero
    /\ portfolio_value_history # << >>
    /\ Last(trade_logs).trade_date = Last(portfolio_value_history).date
    /\ Last(trade_logs).portfolio_value = current_cash

\* the order is priced at the mark the ledger keeps for its instrument
AtTheMark(sig) ==
    /\ sig.stock_code \in DOMAIN holdings
    /\ holdings[sig.stock_code].current_price = Num(sig.price)

\* the order is a BUY that opens a position: the ledger has no entry for the
\* instrument
OpensPosition(sig) == sig.signal = "BUY" /\ sig.stock_code \notin DOMAIN holdings

\* commission + slippage of the order
Fees(sig) ==
    Add(Mul(Mul(Num(sig.price), Num(sig.quantity)), commission_rate),
        Mul(Mul(Num(sig.price), Num(sig.quantity)), slippage_rate))

\* C38: trading at the mark only costs fees: an accepted BUY or SELL whose
\* price is the instrument's current mark, and an accepted BUY at any price
\* of an instrument not yet held, leaves cash + sum of quantity * lastMark at
\* its value before the order minus exactly commission + slippage; with both
\* rates 0 such an order leaves the total value unchanged
C38_TradingAtTheMarkOnlyCostsFees ==
    [][(Accepted /\ (AtTheMark(AppliedSignal) \/ OpensPosition(AppliedSignal))) =>
           /\ TotalValue(current_cash', holdings')
                = Sub(TotalValue(current_cash, holdings), Fees(AppliedSignal))
           /\ (commission_rate = Zero /\ slippage_rate = Zero) =>
                  TotalValue(current_cash', holdings')
                    = TotalValue(current_cash, holdings)]_vars

\* a position was bought, marked at another price and then sold in part at
\* that mark under non-zero rates: the value fell by the fees of the sale
C38_Witness ==
    /\ op = "execute_order"
    /\ ret = TRUE
    /\ Len(trade_logs) = 2
    /\ Last(trade_logs).trade_type = "SELL"
    /\ Last(trade_logs).stock_code \in DOMAIN holdings
    /\ holdings[Last(trade_logs).stock_code].current_price = Num(Last(trade_logs).price)
    /\ trade_logs[1].price # Last(trade_logs).price
    /\ portfolio_value_history # << >>
    /\ commission_rate # Zero
    /\ Last(trade_logs).portfolio_value
         = Sub(Last(portfolio_value_history).portfolio_value,
               Add(Last(trade_logs).commission, Last(trade_logs).slippage))

\* the first run has returned and the second one is under way or over
SecondRunStarted == \E i \in DOMAIN events : events[i].e = "return"

\* where the trace of the first run ends
ReturnAt == CHOOSE i \in DOMAIN events : events[i].e = "return"

\* the calls of a run but the save, whose outcome is the database's
NotTheSave(x) == x.e # "_save_backtest_results_to_db"
FirstRunCalls == SelectSeq(SubSeq(events, 1, ReturnAt - 1), NotTheSave)
SecondRunCalls == SelectSeq(SubSeq(events, ReturnAt + 1, Len(events)), NotTheSave)

====
